---- MODULE Spec2Model ----
(***************************************************************************)
(* Verification model of the exit-interview edge function                  *)
(* (supabase/functions/exit-interview/index.ts, lines 1-928).              *)
(*                                                                         *)
(* Text is modelled as a sequence of atoms.  An atom is either a single    *)
(* character (letters, whitespace, "?") or an indivisible fragment of one  *)
(* of the in-band markers: "[INTERVIEW_" followed by "COMPLETE]" is the    *)
(* completion token, "[INSIGHTS]" and "[/INSIGHTS]" delimit the block.     *)
(***************************************************************************)
EXTENDS Integers, Sequences, FiniteSets, TLC

\* ------------------------------------------------------------------------
\* Bounds of the model
\* ------------------------------------------------------------------------
MaxStored == 21
MaxTurns == 21
MaxMsgs == 3
MaxRawLen == 4
MaxRequests == 2
MaxTapRequests == 1

\* ------------------------------------------------------------------------
\* Text primitives (JavaScript String methods used by the handler)
\* ------------------------------------------------------------------------
Min(S) == CHOOSE x \in S : \A y \in S : x <= y
Max(S) == CHOOSE x \in S : \A y \in S : x >= y

IsSpace(a) == a \in {" ", "\n", "\t"}

toLowerAtom(a) ==
    CASE a = "S" -> "s"
      [] a = "T" -> "t"
      [] a = "A" -> "a"
      [] a = "R" -> "r"
      [] a = "H" -> "h"
      [] a = "I" -> "i"
      [] OTHER -> a

toLowerCase(s) == [i \in 1..Len(s) |-> toLowerAtom(s[i])]

trim(s) ==
    LET keep == {i \in 1..Len(s) : ~IsSpace(s[i])}
    IN  IF keep = {} THEN <<>> ELSE SubSeq(s, Min(keep), Max(keep))

\* s.includes(t): t occurs in s as a contiguous run.
includes(s, t) ==
    \E i \in 1..(Len(s) + 1) :
        /\ i + Len(t) - 1 <= Len(s)
        /\ SubSeq(s, i, i + Len(t) - 1) = t

\* Number of positions at which t starts in s.
Positions(s, t) ==
    {i \in 1..Len(s) :
        /\ i + Len(t) - 1 <= Len(s)
        /\ SubSeq(s, i, i + Len(t) - 1) = t}

Occurrences(s, t) == Cardinality(Positions(s, t))

START == <<"s", "t", "a", "r", "t">>
TOKEN == <<"[INTERVIEW_", "COMPLETE]">>
OPEN == "[INSIGHTS]"
CLOSE == "[/INSIGHTS]"

\* ------------------------------------------------------------------------
\* Config Resolver
\* ------------------------------------------------------------------------
\* A stored column value as Number(value) sees it: a finite number (kept in
\* halves so that Math.floor has something to do) or a value that is not a
\* finite number (NaN from a non-numeric value, +-Infinity).
Num(h) == [kind |-> "num", halves |-> h]
NaNValue == [kind |-> "nan", halves |-> 0]
InfValue == [kind |-> "inf", halves |-> 0]

clampNoUpper(value, fallback) ==
    IF value.kind # "num" THEN fallback
    ELSE LET rounded == value.halves \div 2
         IN  IF rounded < 1 THEN 1 ELSE rounded

clampExchangeLimit(value, fallback) ==
    IF value.kind # "num" THEN fallback
    ELSE LET rounded == value.halves \div 2
         IN  IF rounded < 1 THEN 1
             ELSE IF rounded > 20 THEN 20
             ELSE rounded

PathKinds == {"pause", "downgrade", "fix_and_followup",
              "concierge_onboarding", "offboard_gracefully"}

NoRow == [present |-> FALSE]
Row(mn, mx, paths) ==
    [present |-> TRUE, min_exchanges |-> mn, max_exchanges |-> mx,
     retention_paths |-> paths]

DefaultConfig ==
    [min_exchanges |-> 3, max_exchanges |-> 5,
     retention_paths |-> [p \in {"offboard_gracefully"} |-> TRUE]]

\* Mutants of the resolver: one forgets the min > max repair, one gives a
\* missing row a default that enables every path.
ResolveNoRepair(configRow) ==
    IF configRow.present
    THEN [min_exchanges |-> clampExchangeLimit(configRow.min_exchanges, 3),
          max_exchanges |-> clampExchangeLimit(configRow.max_exchanges, 5),
          retention_paths |-> configRow.retention_paths]
    ELSE DefaultConfig

ResolveEagerDefault(configRow) ==
    LET c == IF configRow.present
             THEN ResolveNoRepair(configRow)
             ELSE [DefaultConfig EXCEPT
                     !.retention_paths = [p \in PathKinds |-> TRUE]]
    IN  IF c.min_exchanges > c.max_exchanges
        THEN [c EXCEPT !.max_exchanges = c.min_exchanges]
        ELSE c

ResolveConfig(configRow) ==
    LET c == IF configRow.present
             THEN [min_exchanges |-> clampExchangeLimit(configRow.min_exchanges, 3),
                   max_exchanges |-> clampExchangeLimit(configRow.max_exchanges, 5),
                   retention_paths |-> configRow.retention_paths]
             ELSE DefaultConfig
    IN  IF c.min_exchanges > c.max_exchanges
        THEN [c EXCEPT !.max_exchanges = c.min_exchanges]
        ELSE c

\* The retention paths whose description buildRetentionSection emits.
EnabledPaths(paths) ==
    {p \in DOMAIN paths : paths[p]}
        \cup (IF "offboard_gracefully" \in DOMAIN paths /\ ~paths["offboard_gracefully"]
              THEN {} ELSE {"offboard_gracefully"})

\* ------------------------------------------------------------------------
\* Turn Governor
\* ------------------------------------------------------------------------
Msg(r, c) == [role |-> r, content |-> c]

IsRawStart(m) == m.role = "user" /\ m.content # START
IsRealUserTurn(m) == m.role = "user" /\ toLowerCase(trim(m.content)) # START

countRawStart(messages) == Len(SelectSeq(messages, IsRawStart))
countUserTurns(messages) == Len(SelectSeq(messages, IsRealUserTurn))

\* The turnRules block buildSystemPrompt writes into the prompt.
PromptPhase(userTurns, config) ==
    IF userTurns < config.min_exchanges THEN "PROBE"
    ELSE IF userTurns >= config.max_exchanges THEN "HARD_STOP"
    ELSE "FLEXIBLE"

hardStopAfterMax(userTurns, config) == userTurns > config.max_exchanges
hardStopReached(userTurns, config) == userTurns >= config.max_exchanges

\* body.messages, with the sentinel substituted for an empty list.
EffectiveMessages(rawMessages) ==
    IF Len(rawMessages) > 0 THEN rawMessages ELSE <<Msg("user", START)>>

\* Input transcripts and rows the specifications draw from.
SomePaths == [p \in {"pause", "offboard_gracefully"} |-> p = "pause"]

\* A transcript with n real user turns: the sentinel, then question and
\* answer alternating.
Conversation(n) ==
    [i \in 1..(2 * n + 1) |->
        IF i = 1 THEN Msg("user", START)
        ELSE IF i % 2 = 0 THEN Msg("assistant", <<"w", "?">>)
        ELSE Msg("user", <<"h", "i">>)]

\* ------------------------------------------------------------------------
\* Insight Extractor
\* ------------------------------------------------------------------------
\* JSON values as JSON.parse returns them, tagged with their type.
Absent == [t |-> "absent"]
JNull == [t |-> "null"]
JStr(s) == [t |-> "str", v |-> s]
JBool(b) == [t |-> "bool", v |-> b]
JList(l) == [t |-> "list", v |-> l]
JObject(f) == [t |-> "object", f |-> f]
JNum(n) == [t |-> "num", v |-> n]

\* Atoms that stand for one complete JSON text each, and the value
\* JSON.parse gives for them.
JsonAtoms == {"{ok}", "{}", "{tok}", "null", "{nulls}", "{wrong}", "{part}",
              "{free}", "[]", "7", "0", "\"s\"", "true"}

JsonOf(atom) ==
    CASE atom = "{ok}" ->
           JObject([surface_reason |-> JStr(<<"p", "r", "i", "c", "e">>),
                    deep_reasons |-> JList(<<JStr(<<"b", "u", "d", "g", "e", "t">>)>>),
                    sentiment |-> JStr(<<"negative">>),
                    salvageable |-> JBool(TRUE),
                    key_quote |-> JStr(<<"w">>),
                    category |-> JStr(<<"pricing">>),
                    competitor |-> JNull,
                    feature_gaps |-> JList(<<>>),
                    usage_duration |-> JStr(<<"1y">>),
                    retention_path |-> JStr(<<"pause">>),
                    retention_accepted |-> JBool(FALSE)])
      [] atom = "{}" -> JObject([x \in {} |-> Absent])
      [] atom = "{tok}" ->
           JObject([surface_reason |-> JStr(<<"w">> \o TOKEN),
                    key_quote |-> JStr(<<"w">>)])
      [] atom = "{nulls}" ->
           JObject([f \in {"surface_reason", "deep_reasons", "sentiment",
                           "salvageable", "key_quote", "category",
                           "competitor", "feature_gaps", "usage_duration",
                           "retention_path", "retention_accepted"} |-> JNull])
      [] atom = "{wrong}" ->
           JObject([surface_reason |-> JList(<<JStr(<<"a">>), JStr(<<"b">>)>>),
                    deep_reasons |-> JStr(<<"b", "u", "d", "g", "e", "t">>),
                    sentiment |-> JNum(7),
                    salvageable |-> JStr(<<"n", "o">>),
                    key_quote |-> JBool(FALSE),
                    category |-> JObject([x \in {} |-> Absent]),
                    competitor |-> JNum(0),
                    feature_gaps |-> JObject([x \in {} |-> Absent]),
                    usage_duration |-> JNum(7),
                    retention_path |-> JNull,
                    retention_accepted |-> JNum(0)])
      [] atom = "{part}" ->
           JObject([sentiment |-> JStr(<<"positive">>),
                    deep_reasons |-> JList(<<JNum(7), JNull>>),
                    retention_accepted |-> JBool(TRUE)])
      [] atom = "{free}" ->
           JObject([surface_reason |-> JStr(<<"w">>),
                    category |-> JStr(<<"billing">>),
                    retention_path |-> JStr(<<"discount">>)])
      [] atom = "[]" -> JList(<<>>)
      [] atom = "7" -> JNum(7)
      [] atom = "0" -> JNum(0)
      [] atom = "\"s\"" -> JStr(<<"s">>)
      [] atom = "true" -> JBool(TRUE)
      [] OTHER -> JNull

\* Leftmost "[INSIGHTS]" that has a "[/INSIGHTS]" after it, and the first
\* such closer: the match of /\[INSIGHTS\]\s*([\s\S]*?)\s*\[\/INSIGHTS\]/.
BlockOpen(text) ==
    LET opens == {i \in 1..Len(text) : text[i] = OPEN}
    IN  IF opens = {} THEN 0 ELSE Min(opens)

BlockClose(text) ==
    LET i == BlockOpen(text)
        closes == {j \in (i + 1)..Len(text) : text[j] = CLOSE}
    IN  IF i = 0 \/ closes = {} THEN 0 ELSE Min(closes)

parseInsight(text) ==
    IF BlockClose(text) = 0 THEN JNull
    ELSE LET content == trim(SubSeq(text, BlockOpen(text) + 1, BlockClose(text) - 1))
         IN  IF Len(content) = 1 /\ content[1] \in JsonAtoms
             THEN JsonOf(content[1])
             ELSE JNull

firstUserMessage(messages) ==
    LET real == {i \in 1..Len(messages) : IsRealUserTurn(messages[i])}
    IN  IF real = {} THEN <<>> ELSE trim(messages[Min(real)].content)

lastUserMessage(messages) ==
    LET real == {i \in 1..Len(messages) :
                    /\ IsRealUserTurn(messages[i])
                    /\ trim(messages[i].content) # <<>>}
    IN  IF real = {} THEN <<>> ELSE trim(messages[Max(real)].content)

NOREASON == <<"No clear reason provided">>

buildFallbackInsight(messages) ==
    LET surface == IF firstUserMessage(messages) # <<>>
                   THEN firstUserMessage(messages) ELSE NOREASON
        keyQuote == IF lastUserMessage(messages) # <<>>
                    THEN lastUserMessage(messages) ELSE surface
    IN  [surface_reason |-> surface,
         deep_reasons |-> <<surface>>,
         sentiment |-> <<"neutral">>,
         salvageable |-> FALSE,
         key_quote |-> keyQuote,
         category |-> <<"other">>,
         competitor |-> JNull,
         feature_gaps |-> <<>>,
         usage_duration |-> JNull,
         retention_path |-> <<"offboard_gracefully">>,
         retention_accepted |-> FALSE]

Get(raw, name) ==
    IF raw.t = "object" /\ name \in DOMAIN raw.f THEN raw.f[name] ELSE Absent

Nullish(v) == v.t \in {"absent", "null"}

RECURSIVE JsString(_)
JsString(v) ==
    CASE v.t = "str" -> v.v
      [] v.t = "bool" -> IF v.v THEN <<"true">> ELSE <<"false">>
      [] v.t = "list" ->
           IF Len(v.v) = 0 THEN <<>>
           ELSE IF Len(v.v) = 1
                THEN IF Nullish(v.v[1]) THEN <<>> ELSE JsString(v.v[1])
           ELSE (IF Nullish(v.v[1]) THEN <<>> ELSE JsString(v.v[1]))
                    \o <<",">> \o JsString(JList(Tail(v.v)))
      [] v.t = "object" -> <<"[object Object]">>
      [] v.t = "num" -> <<ToString(v.v)>>
      [] v.t = "null" -> <<"null">>
      [] OTHER -> <<"undefined">>

Truthy(v) ==
    CASE v.t = "str" -> v.v # <<>>
      [] v.t = "bool" -> v.v
      [] v.t = "num" -> v.v # 0
      [] v.t \in {"list", "object"} -> TRUE
      [] OTHER -> FALSE

OrElseUndefined(v, fallback) == IF v.t = "absent" THEN fallback ELSE JsString(v)
OrElse(v, fallback) == IF Nullish(v) THEN fallback ELSE JsString(v)

StringList(v, fallback) ==
    IF v.t = "list" THEN [i \in 1..Len(v.v) |-> JsString(v.v[i])] ELSE fallback

normalizeInsightPayload(raw, messages) ==
    LET fallback == buildFallbackInsight(messages)
    IN  IF ~Truthy(raw) THEN fallback
        ELSE [surface_reason |-> OrElse(Get(raw, "surface_reason"), fallback.surface_reason),
              deep_reasons |-> StringList(Get(raw, "deep_reasons"), fallback.deep_reasons),
              sentiment |-> OrElse(Get(raw, "sentiment"), fallback.sentiment),
              salvageable |-> Truthy(Get(raw, "salvageable")),
              key_quote |-> OrElse(Get(raw, "key_quote"), fallback.key_quote),
              category |-> OrElse(Get(raw, "category"), fallback.category),
              competitor |-> IF Truthy(Get(raw, "competitor"))
                             THEN JStr(JsString(Get(raw, "competitor"))) ELSE JNull,
              feature_gaps |-> StringList(Get(raw, "feature_gaps"), <<>>),
              usage_duration |-> IF Truthy(Get(raw, "usage_duration"))
                                 THEN JStr(JsString(Get(raw, "usage_duration"))) ELSE JNull,
              retention_path |-> OrElse(Get(raw, "retention_path"), fallback.retention_path),
              retention_accepted |-> Truthy(Get(raw, "retention_accepted"))]

\* JSON.stringify(insight, null, 2): the fields in order; whitespace inside
\* a string is escaped, the markers are written as they are.
EscapeAtom(a) == IF a = "\n" THEN "\\n" ELSE IF a = "\t" THEN "\\t" ELSE a
Quote(s) == <<"\"">> \o [i \in 1..Len(s) |-> EscapeAtom(s[i])] \o <<"\"">>
QuoteOrNull(v) == IF v.t = "str" THEN Quote(v.v) ELSE <<"null">>
BoolText(b) == IF b THEN <<"true">> ELSE <<"false">>

RECURSIVE QuoteList(_)
QuoteList(l) ==
    IF Len(l) = 0 THEN <<>>
    ELSE IF Len(l) = 1 THEN Quote(l[1])
    ELSE Quote(l[1]) \o <<",">> \o QuoteList(Tail(l))

Stringify(ins) ==
    <<"{">> \o Quote(ins.surface_reason)
        \o <<",", "[">> \o QuoteList(ins.deep_reasons) \o <<"]">>
        \o <<",">> \o Quote(ins.sentiment)
        \o <<",">> \o BoolText(ins.salvageable)
        \o <<",">> \o Quote(ins.key_quote)
        \o <<",">> \o Quote(ins.category)
        \o <<",">> \o QuoteOrNull(ins.competitor)
        \o <<",", "[">> \o QuoteList(ins.feature_gaps) \o <<"]">>
        \o <<",">> \o QuoteOrNull(ins.usage_duration)
        \o <<",">> \o Quote(ins.retention_path)
        \o <<",">> \o BoolText(ins.retention_accepted)
        \o <<"}">>

\* rawText.replace(/\[INSIGHTS\][\s\S]*?\[\/INSIGHTS\]/g, ""): one pass, left
\* to right, over non-overlapping matches.
RECURSIVE stripBlocks(_)
stripBlocks(s) ==
    IF BlockClose(s) = 0 THEN s
    ELSE SubSeq(s, 1, BlockOpen(s) - 1)
            \o stripBlocks(SubSeq(s, BlockClose(s) + 1, Len(s)))

\* .replace(/\[INTERVIEW_COMPLETE\]/g, ""): one pass, left to right.
RECURSIVE stripToken(_)
stripToken(s) ==
    IF Len(s) < 2 THEN s
    ELSE IF SubSeq(s, 1, 2) = TOKEN THEN stripToken(SubSeq(s, 3, Len(s)))
    ELSE <<s[1]>> \o stripToken(Tail(s))

CANNED == <<"Thanks for sharing this with us - we appreciate the context and will use it to improve.">>

forceFinalTranscript(raw, messages) ==
    LET ins == normalizeInsightPayload(parseInsight(raw), messages)
        visibleRaw == trim(stripToken(stripBlocks(raw)))
        visible == IF includes(visibleRaw, <<"?">>) THEN CANNED
                   ELSE IF visibleRaw = <<>> THEN CANNED ELSE visibleRaw
    IN  [text |-> visible \o <<"\n", "\n">> \o TOKEN \o <<"\n", "\n">>
                    \o <<OPEN, "\n">> \o Stringify(ins) \o <<"\n", CLOSE>>,
         insight |-> ins]

\* ------------------------------------------------------------------------
\* State
\* ------------------------------------------------------------------------
VARIABLES
    pc,             \* position of the request handler
    nReq,           \* requests received so far
    apiKey,         \* x-api-key header of the request
    accountId,      \* account the key resolved to
    messages,       \* message list the handler works on
    bodyInsightId,  \* body.insightId as sent by the caller
    insightId,      \* handler's insightId (supplied or freshly created)
    configRow,      \* row loaded from configs
    config,         \* resolved AccountConfig
    userTurns,      \* countUserTurns(messages)
    phase,          \* phase block written into the system prompt
    hardStop,       \* hardStopReached
    primaryStatus,  \* HTTP status of the Primary call (0: not called)
    primaryCalls,   \* Primary calls made by this request
    secondaryCalls, \* Secondary calls made by this request
    secondaryStatus,\* "none", "ok" or "failed"
    rawText,        \* text a non-streaming provider call returned
    finalText,      \* text the response was built from
    insight,        \* normalised insight of this request
    upstream,       \* chunks of the Primary stream not read yet
    accumulated,    \* tapping task's local accumulator
    response,       \* response the caller observes
    store,          \* insights table
    storeAtStart,   \* insights table when the request arrived
    dispatches,     \* deliverRealtimeNotifications calls of this request
    endpoints,      \* notification_endpoints table
    dpc,            \* position of the detached dispatcher task
    djob,           \* arguments of the running dispatch
    dqueue,         \* endpoints the dispatch loop has not handled yet
    deliveries,     \* notification_deliveries rows written by the dispatch
    netCalls,       \* webhook requests issued by the dispatch
    dlog,           \* errors the dispatch wrote to the console
    conv,           \* the client's side of one conversation
    userContext,    \* body.userContext
    rules,          \* rows of the rules table, as stored
    ruleInjection,  \* what matchRule returned
    finalizes       \* saveInsight calls of requests running side by side

vars == <<pc, nReq, apiKey, accountId, messages, bodyInsightId, insightId,
          configRow, config, userTurns, phase, hardStop, primaryStatus,
          primaryCalls, secondaryCalls, secondaryStatus, rawText, finalText,
          insight, upstream, accumulated, response, store, storeAtStart,
          dispatches, endpoints, dpc, djob, dqueue, deliveries, netCalls, dlog,
          conv, userContext, rules, ruleInjection, finalizes>>

\* The dispatcher's share of the state.
dispVars == <<endpoints, dpc, djob, dqueue, deliveries, netCalls, dlog>>

\* The client's conversation, the Rule Matcher's inputs and output, and the
\* finalizes of concurrent requests.
contextVars == <<conv, userContext, rules, ruleInjection, finalizes>>

NoId == 0
\* An id the caller sends that matches no insights row.
UnknownId == 99
NoAccount == "none"
NoConfig == [min_exchanges |-> 0, max_exchanges |-> 0,
             retention_paths |-> [p \in {} |-> TRUE]]
NoResponse == [kind |-> "none", status |-> 0, error |-> "",
               insightHeader |-> NoId, body |-> <<>>, closed |-> FALSE]

IdleAuth == apiKey = "" /\ accountId = NoAccount /\ bodyInsightId = NoId
            /\ insightId = NoId /\ nReq = 0
IdleConfig == configRow = NoRow /\ config = NoConfig /\ phase = "none"
              /\ hardStop = FALSE
IdleProvider == primaryStatus = 0 /\ primaryCalls = 0 /\ secondaryCalls = 0
                /\ secondaryStatus = "none" /\ upstream = <<>>
                /\ accumulated = <<>> /\ response = NoResponse
NoInsight == [surface_reason |-> <<>>, deep_reasons |-> <<>>,
              sentiment |-> <<>>, salvageable |-> FALSE, key_quote |-> <<>>,
              category |-> <<>>, competitor |-> JNull, feature_gaps |-> <<>>,
              usage_duration |-> JNull, retention_path |-> <<>>,
              retention_accepted |-> FALSE]
IdleText == rawText = <<>> /\ finalText = <<>> /\ insight = NoInsight
IdleStore == store = <<>> /\ storeAtStart = <<>> /\ dispatches = <<>>
NoJob == [account_id |-> NoAccount, insight_id |-> NoId]
IdleDispatch == dpc = "idle" /\ djob = NoJob /\ dqueue = <<>>
                /\ deliveries = <<>> /\ netCalls = <<>> /\ dlog = <<>>
NoConversation == [messages |-> <<>>, sent |-> 0, answered |-> 0,
                   complete |-> FALSE, row |-> NoRow]
\* No userContext in the body, no rule loaded, nothing to inject.
IdleContext == conv = NoConversation /\ userContext = JNull
               /\ rules = <<>> /\ ruleInjection = JNull
               /\ finalizes = <<>>

\* ------------------------------------------------------------------------
\* Rule Matcher
\* ------------------------------------------------------------------------
Condition(variable, operator, value) ==
    [variable |-> variable, operator |-> operator, value |-> value]

Rule(id, priority, logic, conditions, addition) ==
    [id |-> id, priority |-> priority, condition_logic |-> logic,
     conditions |-> conditions, prompt_addition |-> addition]

\* Number(value) for the values a context or a condition holds.
ToNumber(v) ==
    CASE v.t = "num" -> Num(2 * v.v)
      [] v.t = "str" ->
           LET s == trim(v.v)
               digits == {n \in 0..9 : s = <<ToString(n)>>}
           IN  IF s = <<>> THEN Num(0)
               ELSE IF digits # {} THEN Num(2 * Min(digits))
               ELSE NaNValue
      [] v.t = "bool" -> IF v.v THEN Num(2) ELSE Num(0)
      [] v.t = "null" -> Num(0)
      [] OTHER -> NaNValue

\* a < b on numbers; false when either side is NaN.
Less(a, b) == a.kind = "num" /\ b.kind = "num" /\ a.halves < b.halves

Compare(operator, actual, val) ==
    CASE operator = "==" -> JsString(actual) = JsString(val)
      [] operator = "!=" -> JsString(actual) # JsString(val)
      [] operator = ">" -> Less(ToNumber(val), ToNumber(actual))
      [] operator = "<" -> Less(ToNumber(actual), ToNumber(val))
      [] operator = ">=" -> \/ Less(ToNumber(val), ToNumber(actual))
                            \/ /\ ToNumber(actual).kind = "num"
                               /\ ToNumber(actual) = ToNumber(val)
      [] operator = "<=" -> \/ Less(ToNumber(actual), ToNumber(val))
                            \/ /\ ToNumber(actual).kind = "num"
                               /\ ToNumber(actual) = ToNumber(val)
      [] operator = "contains" ->
           includes(toLowerCase(JsString(actual)), toLowerCase(JsString(val)))
      [] OTHER -> FALSE

\* One condition against the context; an attribute the context does not
\* have (undefined or null) makes it false.
ConditionUnguarded(c, ctx) == Compare(c.operator, Get(ctx, c.variable), c.value)
ConditionHolds(c, ctx) ==
    IF Nullish(Get(ctx, c.variable)) THEN FALSE
    ELSE Compare(c.operator, Get(ctx, c.variable), c.value)

RuleMatchesVacuously(rule, ctx) ==
    IF rule.condition_logic = "AND"
    THEN \A j \in DOMAIN rule.conditions : ConditionHolds(rule.conditions[j], ctx)
    ELSE \E j \in DOMAIN rule.conditions : ConditionHolds(rule.conditions[j], ctx)
RuleMatches(rule, ctx) ==
    IF Len(rule.conditions) = 0 THEN FALSE
    ELSE IF rule.condition_logic = "AND"
    THEN \A j \in DOMAIN rule.conditions : ConditionHolds(rule.conditions[j], ctx)
    ELSE \E j \in DOMAIN rule.conditions : ConditionHolds(rule.conditions[j], ctx)

matchRuleLast(ruleRows, ctx) ==
    LET hits == {i \in DOMAIN ruleRows : RuleMatches(ruleRows[i], ctx)}
    IN  IF ctx.t = "null" \/ hits = {} THEN JNull
        ELSE JStr(ruleRows[Max(hits)].prompt_addition)
matchRule(ruleRows, ctx) ==
    IF ctx.t = "null" \/ Len(ruleRows) = 0 THEN JNull
    ELSE LET hits == {i \in DOMAIN ruleRows : RuleMatches(ruleRows[i], ctx)}
         IN  IF hits = {} THEN JNull
             ELSE JStr(ruleRows[Min(hits)].prompt_addition)

\* .order("priority", {ascending: true}): the rows in some order that is
\* ascending in priority (rows of equal priority in any order).
OrderedByPriority(table) ==
    LET n == Len(table)
        perms == {p \in [1..n -> 1..n] : \A i, j \in 1..n : p[i] = p[j] => i = j}
    IN  { [i \in 1..n |-> table[p[i]]] : p \in
            {q \in perms : \A i, j \in 1..n :
                 i < j => table[q[i]].priority <= table[q[j]].priority} }

\* The block buildSystemPrompt writes for the injection.
ruleInjectionBlock(injection) ==
    IF injection.t = "null" \/ injection.v = <<>> THEN <<>>
    ELSE <<"\n", "VERY IMPORTANT INFORMATION FOR THIS SPECIFIC ACCOUNT:", "\n">> \o injection.v

\* ------------------------------------------------------------------------
\* Provider Client: canonical framing
\* ------------------------------------------------------------------------
\* A response body is a sequence of chunks, a chunk a sequence of SSE
\* events.  "done" is the line `data: [DONE]`.
Event(type, text) == [type |-> type, text |-> text]
Delta(text) == Event("content_block_delta", text)
DONE == Event("done", <<>>)

textToAnthropicSSE(text) == << <<Delta(text), DONE>> >>

\* controller.enqueue(value) on the caller-facing stream, and the mutant
\* that keeps only the latest chunk.
enqueueLatest(queue, value) == <<value>>
enqueue(queue, value) == Append(queue, value)

RECURSIVE Flatten(_)
Flatten(chunks) ==
    IF Len(chunks) = 0 THEN <<>> ELSE Head(chunks) \o Flatten(Tail(chunks))

RECURSIVE ConcatText(_)
ConcatText(events) ==
    IF Len(events) = 0 THEN <<>>
    ELSE (IF Head(events).type = "content_block_delta"
          THEN Head(events).text ELSE <<>>) \o ConcatText(Tail(events))

\* Text of the content_block_delta events of the accumulated stream.
extractTextFromSSE(acc) == ConcatText(acc)

\* ------------------------------------------------------------------------
\* Insight Store
\* ------------------------------------------------------------------------
PlaceholderInsight ==
    [surface_reason |-> <<>>, deep_reasons |-> <<>>,
     sentiment |-> <<"neutral">>, salvageable |-> FALSE, key_quote |-> <<>>,
     category |-> <<"other">>, competitor |-> JNull, feature_gaps |-> <<>>,
     usage_duration |-> JNull, retention_path |-> <<"offboard_gracefully">>,
     retention_accepted |-> FALSE]

\* Row createPartialInsight inserts.
PartialRow(account) ==
    [account_id |-> account, insight |-> PlaceholderInsight,
     raw_transcript |-> <<>>]

\* Payload saveInsight writes.
FinalRow(account, ins, msgs) ==
    [account_id |-> account,
     insight |-> [ins EXCEPT !.category =
                     IF ins.category = <<>> THEN <<"other">> ELSE ins.category],
     raw_transcript |-> msgs]

\* The handler's gate on createPartialInsight, and the mutant that drops
\* the turn-count test.
AlwaysCreatePartial(turns, id) == id = NoId
\* The mutant that drops the test of the id.
CreatePartialWithId(turns, id) == turns = 0 \/ turns = 1
ShouldCreatePartial(turns, id) == (turns = 0 \/ turns = 1) /\ id = NoId

\* createPartialInsight: the table and the id returned (NoId on error).
createPartialInsight(table, account, ok) ==
    IF ok THEN [table |-> Append(table, PartialRow(account)), id |-> Len(table) + 1]
    ELSE [table |-> table, id |-> NoId]

\* The mutant of saveInsight that inserts whether or not an id is known.
saveAlwaysInsert(table, account, ins, msgs, existingInsightId, ok) ==
    IF ok
    THEN [table |-> Append(table, FinalRow(account, ins, msgs)),
          id |-> Len(table) + 1]
    ELSE [table |-> table, id |-> existingInsightId]

\* The mutant of saveInsight whose update leaves a transcript already
\* stored in place.
saveKeepingTranscript(table, account, ins, msgs, existingInsightId, ok) ==
    IF existingInsightId # NoId
    THEN [table |-> IF ok /\ existingInsightId \in DOMAIN table
                    THEN [table EXCEPT ![existingInsightId] =
                            [FinalRow(account, ins, msgs) EXCEPT
                               !.raw_transcript =
                                  IF table[existingInsightId].raw_transcript # <<>>
                                  THEN table[existingInsightId].raw_transcript
                                  ELSE msgs]]
                    ELSE table,
          id |-> existingInsightId]
    ELSE IF ok
         THEN [table |-> Append(table, FinalRow(account, ins, msgs)),
               id |-> Len(table) + 1]
         ELSE [table |-> table, id |-> NoId]

\* saveInsight: update in place when an id is known, insert otherwise.
saveInsight(table, account, ins, msgs, existingInsightId, ok) ==
    IF existingInsightId # NoId
    THEN [table |-> IF ok /\ existingInsightId \in DOMAIN table
                    THEN [table EXCEPT ![existingInsightId] = FinalRow(account, ins, msgs)]
                    ELSE table,
          id |-> existingInsightId]
    ELSE IF ok
         THEN [table |-> Append(table, FinalRow(account, ins, msgs)),
               id |-> Len(table) + 1]
         ELSE [table |-> table, id |-> NoId]

\* ------------------------------------------------------------------------
\* Notification Dispatcher
\* ------------------------------------------------------------------------
\* A notification_endpoints row.  signing_secret "" is no secret; auth says
\* whether auth_header_name and auth_header_value are both set.
Endpoint(id, account, provider, secret, auth, event, mode, enabled) ==
    [id |-> id, account_id |-> account, provider |-> provider,
     signing_secret |-> secret, auth |-> auth, event_type |-> event,
     delivery_mode |-> mode, enabled |-> enabled]

\* The filter of the endpoint query, and the mutant that forgets the
\* delivery mode.
IsTargetAnyMode(e, account) ==
    /\ e.account_id = account
    /\ e.enabled
    /\ e.event_type = "interview_completed"
IsRealtimeTarget(e, account) ==
    /\ e.account_id = account
    /\ e.enabled
    /\ e.event_type = "interview_completed"
    /\ e.delivery_mode = "realtime"

\* Rows the endpoint query returns, in table order.
SelectEndpoints(table, account) ==
    SelectSeq(table, LAMBDA e : IsRealtimeTarget(e, account))

\* bodyObject: the Slack shape for a slack endpoint, the event otherwise.
BodyObject(e, job) ==
    [shape |-> IF e.provider = "slack" THEN "slack" ELSE "event",
     account_id |-> job.account_id, insight_id |-> job.insight_id]
NoBody == [shape |-> "none", account_id |-> NoAccount, insight_id |-> NoId]

\* The mutant of the placeholder row that is written as already failed.
DeliveryRowFailed(e, job) ==
    [account_id |-> job.account_id, endpoint_id |-> e.id,
     insight_id |-> job.insight_id, event_type |-> "interview_completed",
     status |-> "failed", payload |-> BodyObject(e, job)]

\* The placeholder row inserted before the delivery is attempted.
DeliveryRow(e, job) ==
    [account_id |-> job.account_id, endpoint_id |-> e.id,
     insight_id |-> job.insight_id, event_type |-> "interview_completed",
     status |-> "skipped", payload |-> BodyObject(e, job)]

\* HMAC-SHA256 of the body under the secret, kept symbolic.
hmacSha256Hex(secret, body) == [key |-> secret, over |-> body]
NoSignature == [key |-> "", over |-> NoBody]

\* When the signature header is set, and the mutant that leaves Slack
\* endpoints unsigned.
SignUnlessSlack(e) == e.signing_secret # "" /\ e.provider # "slack"
ShouldSign(e) == e.signing_secret # ""

\* The POST issued for a delivery row, with what the fetch settled to
\* ("pending" until then).
WebhookCall(e, deliveryId, job) ==
    [endpoint_id |-> e.id, delivery_id |-> deliveryId,
     body |-> BodyObject(e, job),
     auth |-> e.auth,
     answer |-> "pending",
     signature |-> IF ShouldSign(e)
                   THEN hmacSha256Hex(e.signing_secret, BodyObject(e, job))
                   ELSE NoSignature]

\* How the fetch can settle: the headers of a 2xx answer, those of another
\* status, a thrown network error, the abort after five seconds.
WebhookOutcomes == {"ok", "http_error", "network_error", "timeout"}

\* How reading the response body can go once the headers are in and the
\* abort timer has been cleared: read to its end, a thrown error, or an
\* endpoint that never sends the rest.
BodyOutcomes == {"read", "error", "stalled"}

\* Status written to the delivery row after the attempt.
StatusAfter(outcome) == IF outcome = "ok" THEN "success" ELSE "failed"

\* The .catch on the detached call logs and leaves the response alone; the
\* mutant lets the rejection reach the caller.
surfaceDispatchError(resp) ==
    [resp EXCEPT !.kind = "error", !.status = 500, !.error = "Unknown error"]
catchDispatchError(resp) == resp

\* ------------------------------------------------------------------------
\* Request handler
\* ------------------------------------------------------------------------
\* accounts table: two accounts, one key each.
LookupAnyKey(key) == IF key = "kB" THEN "B" ELSE "A"
LookupAccount(key) ==
    CASE key = "kA" -> "A"
      [] key = "kB" -> "B"
      [] OTHER -> NoAccount

ApiKeys == {"", "bad", "kA", "kB"}

HandlerRows ==
    { NoRow,
      Row(Num(2), Num(4), SomePaths),
      Row(Num(2), Num(1), SomePaths) }

HandlerMessages == {<<>>, Conversation(1), Conversation(2)}

FULLANSWER == <<"w">> \o TOKEN \o <<OPEN, "{ok}", CLOSE>>

\* Texts a non-streaming provider call returns: a question, a complete
\* answer, and an answer cut off inside the block.
ProviderTexts == { <<"w", "?">>, FULLANSWER, <<"w">> \o TOKEN \o <<OPEN, "{ok}">> }

\* Primary event streams: a question; a complete answer whose token is
\* split over two chunks.
UpstreamStreams ==
    { << <<Event("message_start", <<>>)>>,
         <<Delta(<<"w", "?">>)>>,
         <<Event("message_stop", <<>>)>> >>,
      << <<Event("message_start", <<>>)>>,
         <<Delta(<<"w", "[INTERVIEW_">>)>>,
         <<Delta(<<"COMPLETE]", OPEN, "{ok}", CLOSE>>)>>,
         <<Event("message_stop", <<>>)>> >> }

\* notification_endpoints during the requests: account A has a signed Slack
\* endpoint and a disabled one, account B a digest endpoint.
HandlerEndpoints ==
    << Endpoint(1, "A", "slack", "s1", FALSE, "interview_completed", "realtime", TRUE),
       Endpoint(2, "A", "webhook", "", TRUE, "interview_completed", "realtime", FALSE),
       Endpoint(3, "B", "webhook", "", TRUE, "interview_completed", "digest", TRUE) >>

\* A JSON error response {error: ...} with the given status.
ErrorResponse(status, error) ==
    [kind |-> "error", status |-> status, error |-> error,
     insightHeader |-> NoId, body |-> <<>>, closed |-> TRUE]

GatewayError == ErrorResponse(500, "AI gateway error")

\* The typed response for a Primary 429 or 402.
TransientError(status) ==
    IF status = 429
    THEN ErrorResponse(429, "Rate limits exceeded, please try again later.")
    ELSE ErrorResponse(402, "Payment required, please add funds.")

\* A text/event-stream response.
StreamResponse(chunks, header, closed) ==
    [kind |-> "stream", status |-> 200, error |-> "",
     insightHeader |-> header, body |-> chunks, closed |-> closed]

Dispatch(account, id, ins) == [account_id |-> account, insight_id |-> id, insight |-> ins]

Init ==
    /\ pc = "idle"
    /\ messages = <<>>
    /\ userTurns = 0
    /\ IdleAuth /\ IdleConfig /\ IdleProvider /\ IdleText /\ IdleStore
    /\ endpoints = HandlerEndpoints /\ IdleDispatch /\ IdleContext

\* A request of the interview protocol arrives (a CORS preflight is answered
\* at once, touches nothing and is not modelled).
Receive ==
    /\ pc = "idle"
    /\ nReq < MaxRequests
    /\ nReq' = nReq + 1
    /\ apiKey' \in ApiKeys
    /\ messages' \in HandlerMessages
    /\ bodyInsightId' \in {NoId, UnknownId} \cup DOMAIN store
    /\ pc' = "auth"
    /\ storeAtStart' = store
    /\ UNCHANGED <<accountId, insightId, configRow, config, userTurns, phase,
                   hardStop, primaryStatus, primaryCalls, secondaryCalls,
                   secondaryStatus, rawText, finalText, insight, upstream,
                   accumulated, response, store, dispatches>>
    /\ UNCHANGED dispVars
    /\ UNCHANGED contextVars

\* Missing x-api-key header: 401.
RejectMissingKey ==
    /\ pc = "auth"
    /\ apiKey = ""
    /\ response' = ErrorResponse(401, "Missing x-api-key header")
    /\ pc' = "done"
    /\ UNCHANGED <<nReq, apiKey, accountId, messages, bodyInsightId, insightId,
                   configRow, config, userTurns, phase, hardStop,
                   primaryStatus, primaryCalls, secondaryCalls,
                   secondaryStatus, rawText, finalText, insight, upstream,
                   accumulated, store, storeAtStart, dispatches>>
    /\ UNCHANGED dispVars
    /\ UNCHANGED contextVars

\* Account lookup by key: 401 when no account matches.
ResolveAccount ==
    /\ pc = "auth"
    /\ apiKey # ""
    /\ IF LookupAccount(apiKey) = NoAccount
       THEN /\ response' = ErrorResponse(401, "Invalid API key")
            /\ pc' = "done"
            /\ UNCHANGED accountId
       ELSE /\ accountId' = LookupAccount(apiKey)
            /\ pc' = "config"
            /\ UNCHANGED response
    /\ UNCHANGED <<nReq, apiKey, messages, bodyInsightId, insightId,
                   configRow, config, userTurns, phase, hardStop,
                   primaryStatus, primaryCalls, secondaryCalls,
                   secondaryStatus, rawText, finalText, insight, upstream,
                   accumulated, store, storeAtStart, dispatches>>
    /\ UNCHANGED dispVars
    /\ UNCHANGED contextVars

\* Config row loaded (or not found), body parsed, turns counted.
LoadConfigAndBody ==
    /\ pc = "config"
    /\ configRow' \in HandlerRows
    /\ messages' = EffectiveMessages(messages)
    /\ userTurns' = countUserTurns(messages')
    /\ insightId' = bodyInsightId
    /\ pc' = "partial"
    /\ UNCHANGED <<nReq, apiKey, accountId, bodyInsightId, config, phase,
                   hardStop, primaryStatus, primaryCalls, secondaryCalls,
                   secondaryStatus, rawText, finalText, insight, upstream,
                   accumulated, response, store, storeAtStart, dispatches>>
    /\ UNCHANGED dispVars
    /\ UNCHANGED contextVars

\* How an awaited call on the insights table ends: the row is written, the
\* client returns an error value, or the promise rejects.
StoreOutcomes == {"ok", "error", "throws"}

\* The outer catch: 500 with the exception's message.
CaughtError == ErrorResponse(500, "insights request failed")

\* The response after saveInsight threw, by the catch that is in scope.
saveThrowsUnclosed(resp, hard, secondary, status) ==
    IF hard
    THEN IF secondary = 0 THEN CaughtError ELSE GatewayError
    ELSE IF secondary = 1 THEN TransientError(status)
    ELSE resp

saveThrows(resp, hard, secondary, status) ==
    IF hard
    THEN IF secondary = 0 THEN CaughtError ELSE GatewayError
    ELSE IF secondary = 1 THEN TransientError(status)
    ELSE [resp EXCEPT !.closed = TRUE]

\* Partial row on the greeting or the first real turn when no id was sent;
\* an exception of the insert goes to the outer catch.
MaybeCreatePartial ==
    /\ pc = "partial"
    /\ IF ShouldCreatePartial(userTurns, insightId)
       THEN \E outcome \in StoreOutcomes :
              IF outcome = "throws"
              THEN /\ response' = CaughtError
                   /\ pc' = "done"
                   /\ UNCHANGED <<store, insightId>>
              ELSE /\ store' = createPartialInsight(store, accountId,
                                                    outcome = "ok").table
                   /\ insightId' = createPartialInsight(store, accountId,
                                                        outcome = "ok").id
                   /\ pc' = "prompt"
                   /\ UNCHANGED response
       ELSE /\ pc' = "prompt"
            /\ UNCHANGED <<store, insightId, response>>
    /\ UNCHANGED <<nReq, apiKey, accountId, messages, bodyInsightId, configRow,
                   config, userTurns, phase, hardStop, primaryStatus,
                   primaryCalls, secondaryCalls, secondaryStatus, rawText,
                   finalText, insight, upstream, accumulated,
                   storeAtStart, dispatches>>
    /\ UNCHANGED dispVars
    /\ UNCHANGED contextVars

\* The mutant of the step below that governs by the number of requests
\* served before this one instead of by the transcript.
BuildPromptFromServedCount ==
    /\ pc = "prompt"
    /\ config' = ResolveConfig(configRow)
    /\ phase' = PromptPhase(nReq - 1, config')
    /\ hardStop' = hardStopReached(nReq - 1, config')
    /\ \E keyPresent \in BOOLEAN :
          IF keyPresent
          THEN /\ pc' = IF hardStop' THEN "forced" ELSE "primary"
               /\ UNCHANGED response
          ELSE /\ pc' = "done"
               /\ response' = ErrorResponse(500, "ANTHROPIC_API_KEY is not configured")
    /\ UNCHANGED <<nReq, apiKey, accountId, messages, bodyInsightId, insightId,
                   configRow, userTurns, primaryStatus, primaryCalls,
                   secondaryCalls, secondaryStatus, rawText, finalText,
                   insight, upstream, accumulated, store, storeAtStart,
                   dispatches>>
    /\ UNCHANGED dispVars
    /\ UNCHANGED contextVars

\* Config resolved, prompt built, hard stop decided; a missing
\* ANTHROPIC_API_KEY throws into the outer catch (500).
BuildPrompt ==
    /\ pc = "prompt"
    /\ config' = ResolveConfig(configRow)
    /\ phase' = PromptPhase(userTurns, config')
    /\ hardStop' = hardStopReached(userTurns, config')
    /\ \E keyPresent \in BOOLEAN :
          IF keyPresent
          THEN /\ pc' = IF hardStop' THEN "forced" ELSE "primary"
               /\ UNCHANGED response
          ELSE /\ pc' = "done"
               /\ response' = ErrorResponse(500, "ANTHROPIC_API_KEY is not configured")
    /\ UNCHANGED <<nReq, apiKey, accountId, messages, bodyInsightId, insightId,
                   configRow, userTurns, primaryStatus, primaryCalls,
                   secondaryCalls, secondaryStatus, rawText, finalText,
                   insight, upstream, accumulated, store, storeAtStart,
                   dispatches>>
    /\ UNCHANGED dispVars
    /\ UNCHANGED contextVars

PrimaryStatuses == {200, 429, 402, 500}

\* Hard stop: the forced single non-streaming Primary call.  On success the
\* transcript is forced and the finalize write issued; on any failure the
\* Secondary is tried when its key is configured, else 500.
ForcedCall ==
    /\ pc = "forced"
    /\ primaryCalls' = primaryCalls + 1
    /\ \E status \in PrimaryStatuses :
        /\ primaryStatus' = status
        /\ IF status = 200
           THEN \E text \in ProviderTexts :
                  LET r == forceFinalTranscript(text, messages)
                  IN  /\ rawText' = text
                      /\ finalText' = r.text
                      /\ insight' = r.insight
                      /\ pc' = "saving"
                      /\ UNCHANGED response
           ELSE /\ \E geminiKey \in BOOLEAN :
                     IF geminiKey
                     THEN pc' = "forcedGemini" /\ UNCHANGED response
                     ELSE pc' = "done" /\ response' = GatewayError
                /\ UNCHANGED <<rawText, finalText, insight>>
    /\ UNCHANGED <<nReq, apiKey, accountId, messages, bodyInsightId, insightId,
                   configRow, config, userTurns, phase, hardStop,
                   secondaryCalls, secondaryStatus, upstream, accumulated,
                   store, storeAtStart, dispatches>>
    /\ UNCHANGED dispVars
    /\ UNCHANGED contextVars

\* Hard stop: the Secondary call after a failed forced call.
GeminiForced ==
    /\ pc = "forcedGemini"
    /\ secondaryCalls' = secondaryCalls + 1
    /\ \/ \E text \in ProviderTexts :
            LET r == forceFinalTranscript(text, messages)
            IN  /\ secondaryStatus' = "ok"
                /\ rawText' = text
                /\ finalText' = r.text
                /\ insight' = r.insight
                /\ pc' = "saving"
                /\ UNCHANGED response
       \/ /\ secondaryStatus' = "failed"
          /\ response' = GatewayError
          /\ pc' = "done"
          /\ UNCHANGED <<rawText, finalText, insight>>
    /\ UNCHANGED <<nReq, apiKey, accountId, messages, bodyInsightId, insightId,
                   configRow, config, userTurns, phase, hardStop,
                   primaryStatus, primaryCalls, upstream, accumulated,
                   store, storeAtStart, dispatches>>
    /\ UNCHANGED dispVars
    /\ UNCHANGED contextVars

\* The streaming Primary call.  200 starts the relay and returns the
\* response; 429/402 go to the Secondary when its key is configured, else
\* are returned with that status; anything else is 500.
PrimaryCall ==
    /\ pc = "primary"
    /\ primaryCalls' = primaryCalls + 1
    /\ \E status \in PrimaryStatuses :
        /\ primaryStatus' = status
        /\ IF status = 200
           THEN /\ upstream' \in UpstreamStreams
                /\ response' = StreamResponse(<<>>, insightId, FALSE)
                /\ pc' = "stream"
           ELSE /\ UNCHANGED upstream
                /\ IF status \in {429, 402}
                   THEN \E geminiKey \in BOOLEAN :
                          IF geminiKey
                          THEN pc' = "gemini" /\ UNCHANGED response
                          ELSE pc' = "done" /\ response' = TransientError(status)
                   ELSE pc' = "done" /\ response' = GatewayError
    /\ UNCHANGED <<nReq, apiKey, accountId, messages, bodyInsightId, insightId,
                   configRow, config, userTurns, phase, hardStop,
                   secondaryCalls, secondaryStatus, rawText, finalText,
                   insight, accumulated, store, storeAtStart, dispatches>>
    /\ UNCHANGED dispVars
    /\ UNCHANGED contextVars

\* The Secondary call on the streaming path: the finalize write is issued
\* when the text holds the token, else the text is returned at once.
GeminiStreaming ==
    /\ pc = "gemini"
    /\ secondaryCalls' = secondaryCalls + 1
    /\ \/ \E text \in ProviderTexts :
            /\ secondaryStatus' = "ok"
            /\ rawText' = text
            /\ finalText' = text
            /\ IF includes(text, TOKEN)
               THEN /\ insight' = normalizeInsightPayload(parseInsight(text), messages)
                    /\ pc' = "saving"
                    /\ UNCHANGED response
               ELSE /\ response' = StreamResponse(textToAnthropicSSE(text), NoId, TRUE)
                    /\ pc' = "done"
                    /\ UNCHANGED insight
       \/ /\ secondaryStatus' = "failed"
          /\ response' = TransientError(primaryStatus)
          /\ pc' = "done"
          /\ UNCHANGED <<rawText, finalText, insight>>
    /\ UNCHANGED <<nReq, apiKey, accountId, messages, bodyInsightId, insightId,
                   configRow, config, userTurns, phase, hardStop,
                   primaryStatus, primaryCalls, upstream, accumulated,
                   store, storeAtStart, dispatches>>
    /\ UNCHANGED dispVars
    /\ UNCHANGED contextVars

\* Tapping task: one chunk read, forwarded and appended to the accumulator
\* before the next read is issued.
ReadChunk ==
    /\ pc = "stream"
    /\ upstream # <<>>
    /\ response' = [response EXCEPT !.body = enqueue(@, Head(upstream))]
    /\ accumulated' = accumulated \o Head(upstream)
    /\ upstream' = Tail(upstream)
    /\ UNCHANGED <<pc, nReq, apiKey, accountId, messages, bodyInsightId,
                   insightId, configRow, config, userTurns, phase, hardStop,
                   primaryStatus, primaryCalls, secondaryCalls,
                   secondaryStatus, rawText, finalText, insight, store,
                   storeAtStart, dispatches>>
    /\ UNCHANGED dispVars
    /\ UNCHANGED contextVars

\* Tapping task: reader.read() rejects; the catch logs, finally closes.
ReadFail ==
    /\ pc = "stream"
    /\ upstream # <<>>
    /\ response' = [response EXCEPT !.closed = TRUE]
    /\ pc' = "done"
    /\ UNCHANGED <<nReq, apiKey, accountId, messages, bodyInsightId, insightId,
                   configRow, config, userTurns, phase, hardStop,
                   primaryStatus, primaryCalls, secondaryCalls,
                   secondaryStatus, rawText, finalText, insight, upstream,
                   accumulated, store, storeAtStart, dispatches>>
    /\ UNCHANGED dispVars
    /\ UNCHANGED contextVars

\* Tapping task: upstream closed; the text is extracted and, when it holds
\* the token, the finalize write issued; otherwise the caller-facing stream
\* is closed.
UpstreamClosed ==
    /\ pc = "stream"
    /\ upstream = <<>>
    /\ finalText' = extractTextFromSSE(accumulated)
    /\ IF includes(finalText', TOKEN)
       THEN /\ insight' = normalizeInsightPayload(parseInsight(finalText'), messages)
            /\ pc' = "saving"
            /\ UNCHANGED response
       ELSE /\ response' = [response EXCEPT !.closed = TRUE]
            /\ pc' = "done"
            /\ UNCHANGED insight
    /\ UNCHANGED <<nReq, apiKey, accountId, messages, bodyInsightId, insightId,
                   configRow, config, userTurns, phase, hardStop,
                   primaryStatus, primaryCalls, secondaryCalls,
                   secondaryStatus, rawText, upstream, accumulated,
                   store, storeAtStart, dispatches>>
    /\ UNCHANGED dispVars
    /\ UNCHANGED contextVars

\* saveInsight returns or throws.  When it returns: the Primary paths start
\* the detached dispatch, the non-streaming paths return the response, the
\* tapping task closes the stream.  When it throws: the hard-stop Primary
\* path falls into the outer catch, the Secondary paths into the catch
\* around the Secondary call (500 at hard stop, the Primary's typed error
\* otherwise), the tapping task logs and closes the stream.
SaveReturns ==
    /\ pc = "saving"
    /\ \E outcome \in StoreOutcomes :
         IF outcome = "throws"
         THEN /\ response' = saveThrows(response, hardStop, secondaryCalls,
                                         primaryStatus)
              /\ UNCHANGED <<store, dispatches, dispVars>>
         ELSE LET saved == saveInsight(store, accountId, insight, messages,
                                       insightId, outcome = "ok")
              IN  /\ store' = saved.table
                  /\ IF secondaryCalls = 0
                     THEN /\ dispatches' = Append(dispatches,
                                                  Dispatch(accountId, saved.id, insight))
                          /\ djob' = [account_id |-> accountId, insight_id |-> saved.id]
                          /\ dpc' = "load"
                          /\ UNCHANGED <<endpoints, dqueue, deliveries, netCalls, dlog>>
                     ELSE UNCHANGED <<dispatches, dispVars>>
                  /\ response' = IF hardStop \/ secondaryCalls = 1
                                 THEN StreamResponse(textToAnthropicSSE(finalText), NoId, TRUE)
                                 ELSE [response EXCEPT !.closed = TRUE]
    /\ pc' = "done"
    /\ UNCHANGED <<nReq, apiKey, accountId, messages, bodyInsightId, insightId,
                   configRow, config, userTurns, phase, hardStop,
                   primaryStatus, primaryCalls, secondaryCalls,
                   secondaryStatus, rawText, finalText, insight, upstream,
                   accumulated, storeAtStart>>
    /\ UNCHANGED contextVars

\* What the handler owns: everything but the dispatcher's share.
handlerVars == <<pc, nReq, apiKey, accountId, messages, bodyInsightId,
                 insightId, configRow, config, userTurns, phase, hardStop,
                 primaryStatus, primaryCalls, secondaryCalls, secondaryStatus,
                 rawText, finalText, insight, upstream, accumulated, store,
                 storeAtStart, dispatches>>

DispatcherRunning ==
    dpc \in {"load", "insert", "post", "await", "body_2xx", "body_non2xx"}

\* Position after the current endpoint has been dealt with.
NextEndpoint(queue) == IF Tail(queue) = <<>> THEN "finished" ELSE "insert"

\* Dispatcher: the endpoint query returns.
LoadEndpoints ==
    /\ dpc = "load"
    /\ \E ok \in BOOLEAN :
         IF ok
         THEN /\ dqueue' = SelectEndpoints(endpoints, djob.account_id)
              /\ dpc' = IF dqueue' = <<>> THEN "finished" ELSE "insert"
              /\ UNCHANGED dlog
         ELSE /\ dlog' = Append(dlog, "Failed to load notification endpoints")
              /\ dpc' = "finished"
              /\ UNCHANGED dqueue
    /\ UNCHANGED <<endpoints, djob, deliveries, netCalls, response>>
    /\ UNCHANGED handlerVars
    /\ UNCHANGED contextVars

\* Dispatcher: the "skipped" row for the next endpoint is inserted; when
\* the insert fails the endpoint is passed over.
InsertDelivery ==
    /\ dpc = "insert"
    /\ \E ok \in BOOLEAN :
         IF ok
         THEN /\ deliveries' = Append(deliveries, DeliveryRow(Head(dqueue), djob))
              /\ dpc' = "post"
              /\ UNCHANGED <<dqueue, dlog>>
         ELSE /\ dlog' = Append(dlog, "Failed to create delivery row")
              /\ dqueue' = Tail(dqueue)
              /\ dpc' = NextEndpoint(dqueue)
              /\ UNCHANGED deliveries
    /\ UNCHANGED <<endpoints, djob, netCalls, response>>
    /\ UNCHANGED handlerVars
    /\ UNCHANGED contextVars

\* Dispatcher: headers built, the POST issued.
PostWebhook ==
    /\ dpc = "post"
    /\ netCalls' = Append(netCalls,
                          WebhookCall(Head(dqueue), Len(deliveries), djob))
    /\ dpc' = "await"
    /\ UNCHANGED <<endpoints, djob, dqueue, deliveries, dlog, response>>
    /\ UNCHANGED handlerVars
    /\ UNCHANGED contextVars

\* Dispatcher: the fetch settles.  With the headers of an answer the abort
\* timer is cleared and the body is read next; a thrown error or the abort
\* goes to the catch block, which updates the row (an update the store
\* refuses leaves the row as it was).
WebhookOutcome ==
    /\ dpc = "await"
    /\ \E outcome \in WebhookOutcomes, ok \in BOOLEAN :
         /\ netCalls' = [netCalls EXCEPT ![Len(netCalls)].answer = outcome]
         /\ IF outcome \in {"ok", "http_error"}
            THEN /\ dpc' = IF outcome = "ok" THEN "body_2xx" ELSE "body_non2xx"
                 /\ UNCHANGED <<deliveries, dqueue>>
            ELSE /\ deliveries' =
                      IF ok
                      THEN [deliveries EXCEPT ![Len(deliveries)].status =
                                                  StatusAfter(outcome)]
                      ELSE deliveries
                 /\ dqueue' = Tail(dqueue)
                 /\ dpc' = NextEndpoint(dqueue)
    /\ UNCHANGED <<endpoints, djob, dlog, response>>
    /\ UNCHANGED handlerVars
    /\ UNCHANGED contextVars

\* Dispatcher: resp.text() with no timer pending.  A body read to its end
\* updates the row by resp.ok, a thrown error updates it through the catch
\* block, and a body that never ends leaves the dispatcher waiting.
ReadResponseBody ==
    /\ dpc \in {"body_2xx", "body_non2xx"}
    /\ \E end \in BodyOutcomes, ok \in BOOLEAN :
         IF end = "stalled"
         THEN /\ dpc' = "hung"
              /\ UNCHANGED <<deliveries, dqueue>>
         ELSE /\ deliveries' =
                   IF ok
                   THEN [deliveries EXCEPT ![Len(deliveries)].status =
                            IF end = "read" /\ dpc = "body_2xx"
                            THEN StatusAfter("ok")
                            ELSE StatusAfter("http_error")]
                   ELSE deliveries
              /\ dqueue' = Tail(dqueue)
              /\ dpc' = NextEndpoint(dqueue)
    /\ UNCHANGED <<endpoints, djob, netCalls, dlog, response>>
    /\ UNCHANGED handlerVars
    /\ UNCHANGED contextVars

\* Dispatcher: the detached promise rejects; its .catch logs.
DispatchRejected ==
    /\ DispatcherRunning
    /\ dpc' = "rejected"
    /\ dlog' = Append(dlog, "Notification dispatch error")
    /\ response' = catchDispatchError(response)
    /\ UNCHANGED <<endpoints, djob, dqueue, deliveries, netCalls>>
    /\ UNCHANGED handlerVars
    /\ UNCHANGED contextVars

\* Dispatcher: the runtime ends the detached task where it stands.
DispatcherCrash ==
    /\ DispatcherRunning
    /\ dpc' = "crashed"
    /\ UNCHANGED <<endpoints, djob, dqueue, deliveries, netCalls, dlog, response>>
    /\ UNCHANGED handlerVars
    /\ UNCHANGED contextVars

\* The request and its detached work are over: the locals are gone, the
\* insights table stays.  (A dispatch reads and writes only its own
\* delivery rows, so the model lets it end before the next request.)
EndRequest ==
    /\ pc = "done"
    /\ ~DispatcherRunning
    /\ pc' = "idle"
    /\ apiKey' = "" /\ messages' = <<>> /\ bodyInsightId' = NoId
    /\ accountId' = NoAccount /\ insightId' = NoId
    /\ configRow' = NoRow /\ config' = NoConfig /\ phase' = "none"
    /\ hardStop' = FALSE /\ userTurns' = 0
    /\ primaryStatus' = 0 /\ primaryCalls' = 0 /\ secondaryCalls' = 0
    /\ secondaryStatus' = "none" /\ upstream' = <<>> /\ accumulated' = <<>>
    /\ response' = NoResponse
    /\ rawText' = <<>> /\ finalText' = <<>> /\ insight' = NoInsight
    /\ storeAtStart' = store
    /\ dispatches' = <<>>
    /\ dpc' = "idle" /\ djob' = NoJob /\ dqueue' = <<>>
    /\ deliveries' = <<>> /\ netCalls' = <<>> /\ dlog' = <<>>
    /\ UNCHANGED <<nReq, store, endpoints>>

Finish == EndRequest /\ UNCHANGED contextVars

Next ==
    \/ Receive
    \/ RejectMissingKey
    \/ ResolveAccount
    \/ LoadConfigAndBody
    \/ MaybeCreatePartial
    \/ BuildPrompt
    \/ ForcedCall
    \/ GeminiForced
    \/ PrimaryCall
    \/ GeminiStreaming
    \/ ReadChunk
    \/ ReadFail
    \/ UpstreamClosed
    \/ SaveReturns
    \/ LoadEndpoints
    \/ InsertDelivery
    \/ PostWebhook
    \/ WebhookOutcome
    \/ ReadResponseBody
    \/ DispatchRejected
    \/ DispatcherCrash
    \/ Finish

Spec == Init /\ [][Next]_vars

\* The handler over MaxTapRequests requests, with the scheduling of the
\* tapping task: it is an async function the runtime keeps running, so a
\* read that can settle does settle (with a chunk, with the end of the
\* upstream or with an error) and an awaited store write comes back.
NextTap ==
    \/ (Receive /\ nReq < MaxTapRequests)
    \/ RejectMissingKey
    \/ ResolveAccount
    \/ LoadConfigAndBody
    \/ MaybeCreatePartial
    \/ BuildPrompt
    \/ ForcedCall
    \/ GeminiForced
    \/ PrimaryCall
    \/ GeminiStreaming
    \/ ReadChunk
    \/ ReadFail
    \/ UpstreamClosed
    \/ SaveReturns
    \/ LoadEndpoints
    \/ InsertDelivery
    \/ PostWebhook
    \/ WebhookOutcome
    \/ ReadResponseBody
    \/ DispatchRejected
    \/ DispatcherCrash
    \/ Finish

SpecTap ==
    /\ Init /\ [][NextTap]_vars
    /\ WF_vars(ReadChunk \/ ReadFail \/ UpstreamClosed)
    /\ WF_vars(SaveReturns)

\* Text the caller assembles from the delta events of the response.
ResponseText == ConcatText(Flatten(response.body))

\* C5: a hard-stop request never ends in an error response; when the
\* forced call fails and no Secondary answer is obtained the caller still
\* gets a stream with the completion token and the fallback insight.
C5_HardStopAlwaysCompletes ==
    (pc = "done" /\ hardStop /\ primaryCalls = 1) =>
        /\ response.kind = "stream"
        /\ (primaryStatus # 200 /\ secondaryStatus # "ok") =>
               /\ includes(ResponseText, TOKEN)
               /\ insight = buildFallbackInsight(messages)

\* C6: within one request the Secondary is called at most once, and only
\* after the Primary answered 429 or 402.
C6_SecondaryOnlyOnTransient ==
    /\ secondaryCalls <= 1
    /\ secondaryCalls = 1 => primaryStatus \in {429, 402}

\* The request ended after a transient Primary failure and a failed
\* Secondary attempt.
BothProvidersFailed ==
    /\ pc = "done"
    /\ primaryStatus \in {429, 402}
    /\ secondaryStatus = "failed"

C8_UnknownKeyRejected ==
    (pc # "idle" /\ apiKey \notin {"kA", "kB"}) =>
        /\ pc \in {"auth", "done"}
        /\ pc = "done" => response.kind = "error" /\ response.status = 401
        /\ primaryCalls = 0 /\ secondaryCalls = 0
        /\ store = storeAtStart
        /\ dispatches = <<>>

\* A request with a key that matches no account was answered, with rows
\* already in the table.
C8_Witness ==
    /\ pc = "done"
    /\ apiKey = "bad"
    /\ response.status = 401
    /\ store # <<>>

\* C9: a request of an account without config row runs with the default
\* config (min 3, max 5, only the graceful-offboard path enabled) and, if
\* it ends in an error at all, the error is a provider error or the
\* missing provider key, never the missing config.
C9_MissingConfigDefaults ==
    (config # NoConfig /\ ~configRow.present) =>
        /\ config.min_exchanges = 3
        /\ config.max_exchanges = 5
        /\ EnabledPaths(config.retention_paths) = {"offboard_gracefully"}
        /\ response.kind = "error" =>
               \/ primaryCalls = 0
                    /\ response.error = "ANTHROPIC_API_KEY is not configured"
               \/ primaryCalls = 1 /\ primaryStatus # 200

\* A request of an account without config row is being streamed to the
\* caller.
C9_Witness ==
    /\ pc = "stream"
    /\ ~configRow.present
    /\ config = DefaultConfig
    /\ response.kind = "stream"
    /\ Len(response.body) > 0

\* Canonical framing: delta-text events only, closed by the end marker.
CanonicalPrefix(events) ==
    \A i \in 1..Len(events) :
        \/ events[i].type = "content_block_delta"
        \/ i = Len(events) /\ events[i] = DONE

Canonical(events) ==
    /\ Len(events) >= 1
    /\ events[Len(events)] = DONE
    /\ \A i \in 1..(Len(events) - 1) : events[i].type = "content_block_delta"

\* C10: every success response is a sequence of delta-text events closed
\* by the end-of-stream marker, whichever provider served it.
C10_CanonicalFraming ==
    response.kind = "stream" =>
        /\ CanonicalPrefix(Flatten(response.body))
        /\ response.closed => Canonical(Flatten(response.body))

\* C11: every success stream response carries the x-insight-id header with
\* the insight id created or reused for the request, on the Primary
\* streaming path, the Secondary path and the hard-stop path alike.
C11_InsightHeaderOnEveryStream ==
    (response.kind = "stream" /\ insightId \in DOMAIN store) =>
        response.insightHeader = insightId

\* The request is served by the relay of the Primary stream.
OnStreamingPath ==
    primaryStatus = 200 /\ ~hardStop /\ response.kind = "stream"

\* Chunks reach the caller in upstream order, none dropped or duplicated,
\* and the accumulator is the text of exactly the chunks forwarded.
RelayInOrder ==
    OnStreamingPath =>
        /\ \E s \in UpstreamStreams : response.body \o upstream = s
        /\ accumulated = Flatten(response.body)

\* Insight extraction has run (or its result is being saved).
ExtractionRan == pc = "saving" \/ finalText # <<>> \/ insight # NoInsight

\* C12 as stated: on the streaming path every chunk read is forwarded before
\* the next is read, in order, none dropped or duplicated; the accumulator
\* is the decoding of the chunks forwarded so far; extraction and the close
\* of the caller-facing stream happen only after the upstream has closed.
C12_RelayThenCloseAfterUpstream ==
    /\ RelayInOrder
    /\ OnStreamingPath =>
         ((ExtractionRan \/ response.closed) => upstream = <<>>)

\* C12 as amended: the same relay order and accumulator; extraction runs only
\* after the upstream has closed; the caller-facing stream is closed only
\* after the upstream has closed or a read from it has failed.
C12_RelayThenCloseAfterUpstreamEnds ==
    /\ [](RelayInOrder)
    /\ [](OnStreamingPath => (ExtractionRan => upstream = <<>>))
    /\ [][(OnStreamingPath /\ ~response.closed /\ response'.closed) =>
              (upstream = <<>> \/ ReadFail)]_vars

C12_Witness ==
    /\ OnStreamingPath /\ response.closed /\ upstream = <<>>
    /\ Len(response.body) = 4
    /\ includes(finalText, TOKEN)
    /\ pc = "done"

\* C13: the close of the caller-facing stream (the completion of the
\* response) never waits for the insight-store write: while a finalize
\* write is in flight the response is already complete.
C13_CloseDoesNotWaitForStore ==
    pc = "saving" => (response.kind = "stream" /\ response.closed)

\* C14: dispatch is fire-and-forget.  The step that starts the dispatcher
\* also completes the caller's response, and no step of the dispatcher,
\* whatever its outcome, changes the response or the handler's state.
C14_DispatchFireAndForget ==
    [][ /\ (dpc = "idle" /\ dpc' = "load") =>
               (response'.kind = "stream" /\ response'.closed /\ pc' = "done")
        /\ DispatcherRunning => (response' = response /\ pc' = pc)
      ]_vars

C14_Witness ==
    /\ dpc \in {"finished", "rejected"}
    /\ dlog # <<>>
    /\ response.kind = "stream" /\ response.closed
    /\ dispatches # <<>>

\* C15: the dispatcher is invoked only after a genuine finalize of the same
\* request: the store then holds the finalized row of this request under
\* the id the dispatch is given, never a partial row alone.
C15_DispatchOnlyAfterFinalize ==
    \A i \in DOMAIN dispatches :
        /\ dispatches[i].insight_id \in DOMAIN store
        /\ store[dispatches[i].insight_id] = FinalRow(accountId, insight, messages)

\* C16: every request that finalizes an insight, whichever provider served
\* the turn, invokes the dispatcher exactly once for that insight.
\* FinalizedHere: this request wrote its finalized row to the store.
FinalizedHere ==
    \E id \in DOMAIN store :
        /\ store[id] = FinalRow(accountId, insight, messages)
        /\ id \in DOMAIN storeAtStart => storeAtStart[id] # store[id]

C16_FinalizeThenOneDispatch ==
    (pc = "done" /\ insight # NoInsight /\ FinalizedHere) =>
        /\ Len(dispatches) = 1
        /\ dispatches[1].insight = insight

\* C20: a finalize that is given an id performs no insert: it leaves the
\* number of insight rows unchanged, also when the same conversation is
\* finalized again.
C20_KnownIdNeverInserts ==
    [][(pc = "saving" /\ pc' = "done" /\ insightId # NoId) =>
           Len(store') = Len(store)]_vars

C20_Witness ==
    /\ pc = "done" /\ nReq = 2
    /\ bodyInsightId \in DOMAIN storeAtStart
    /\ storeAtStart[bodyInsightId].raw_transcript # <<>>
    /\ store[bodyInsightId] = FinalRow(accountId, insight, messages)
    /\ store[bodyInsightId] # storeAtStart[bodyInsightId]
    /\ Len(store) = Len(storeAtStart)

\* C33: finalize always stores the full transcript: after every finalize,
\* with or without a supplied id and also when the id matches no row, the
\* store holds a row of the account whose transcript is the message list of
\* the finalizing request.
C33_FinalizeStoresTranscript ==
    [][(pc = "saving" /\ pc' = "done") =>
           \E id \in DOMAIN store' :
               /\ store'[id].account_id = accountId
               /\ store'[id].raw_transcript = messages]_vars

\* C36: a finalize never modifies an insight row owned by another account:
\* a request authenticated as one account that supplies the id of a row of
\* another leaves that row, its content and its owner, as it was.
C36_FinalizeKeepsOtherAccountsRows ==
    [][(pc = "saving" /\ pc' = "done") =>
           \A id \in DOMAIN store :
               store[id].account_id # accountId => store'[id] = store[id]]_vars

\* The request is past the gate on createPartialInsight with the row added.
PartialCreatedHere == store = Append(storeAtStart, PartialRow(accountId))

\* The gate as the claim words it, on what the caller sent.
GateOpen == userTurns \in {0, 1} /\ bodyInsightId = NoId

\* An authenticated request that supplied an id adds no row, keeps the id
\* as its target and changes no row but the one of that id.
SuppliedIdIsTarget ==
    (pc \in {"partial", "prompt", "stream", "gemini", "forcedGemini",
             "saving", "done"}
        /\ accountId # NoAccount /\ bodyInsightId # NoId) =>
        /\ insightId = bodyInsightId
        /\ Len(store) = Len(storeAtStart)
        /\ \A id \in DOMAIN store :
               id # bodyInsightId => store[id] = storeAtStart[id]

C35_PhaseFromMessagesAndConfig ==
    phase # "none" =>
        LET turns == Cardinality({i \in 1..Len(messages) :
                         /\ messages[i].role = "user"
                         /\ toLowerCase(trim(messages[i].content)) # START})
            cfg == ResolveConfig(configRow)
        IN  /\ phase = PromptPhase(turns, cfg)
            /\ hardStop = (turns >= cfg.max_exchanges)

\* A second request, served after rows were written, whose one real turn
\* meets a stored maximum of 1.
C35_Witness ==
    /\ nReq = 2 /\ storeAtStart # <<>>
    /\ userTurns = 1
    /\ phase = "HARD_STOP"

ProviderFailedHere ==
    \/ primaryCalls = 0 /\ response.error = "ANTHROPIC_API_KEY is not configured"
    \/ primaryStatus \notin {0, 200} /\ secondaryStatus # "ok"

\* C27: the caller only ever observes an auth error, a provider error or a
\* successful stream; no failure of the insight store, returned or thrown,
\* turns the response into an error.
C27_OnlyAuthOrProviderErrors ==
    (pc = "done" /\ response.kind = "error") =>
        \/ response.status = 401
        \/ ProviderFailedHere

\* C28: a Primary 429 or 402 with no Secondary answer reaches the caller as
\* an error of that same status, any other Primary failure as the generic
\* 500, on the streaming path and on the hard-stop path alike.
C28_ErrorMappingSameOnBothPaths ==
    pc = "done" =>
        /\ (primaryStatus \in {429, 402} /\ secondaryStatus # "ok")
              => response = TransientError(primaryStatus)
        /\ primaryStatus \notin {0, 200, 429, 402} => response = GatewayError

StoredValues ==
    {Num(h) : h \in (-2)..(2 * MaxStored + 1)} \cup {NaNValue, InfValue}

InitConfig ==
    /\ pc = "cfg_in"
    /\ configRow \in {NoRow} \cup
           {Row(a, b, SomePaths) : a \in StoredValues, b \in StoredValues}
    /\ messages \in {<<>>} \cup {Conversation(n) : n \in 0..MaxTurns}
    /\ config = NoConfig /\ phase = "none" /\ hardStop = FALSE
    /\ userTurns = 0
    /\ IdleAuth /\ IdleProvider /\ IdleText /\ IdleStore
    /\ endpoints = <<>> /\ IdleDispatch /\ IdleContext

ResolveAndGovern ==
    /\ pc = "cfg_in"
    /\ pc' = "cfg_out"
    /\ userTurns' = countUserTurns(EffectiveMessages(messages))
    /\ config' = ResolveConfig(configRow)
    /\ phase' = PromptPhase(userTurns', config')
    /\ hardStop' = hardStopReached(userTurns', config')
    /\ UNCHANGED <<nReq, apiKey, accountId, messages, bodyInsightId, insightId,
                   configRow, primaryStatus, primaryCalls, secondaryCalls,
                   secondaryStatus, rawText, finalText, insight, upstream,
                   accumulated, response, store, storeAtStart, dispatches>>
    /\ UNCHANGED dispVars
    /\ UNCHANGED contextVars

SpecConfig == InitConfig /\ [][ResolveAndGovern]_vars

\* C1: whatever the stored min_exchanges and max_exchanges are, the
\* resolved config satisfies 1 <= min_exchanges <= max_exchanges <= 20.
C1_ResolvedBoundsOrdered ==
    pc = "cfg_out" =>
        /\ 1 <= config.min_exchanges
        /\ config.min_exchanges <= config.max_exchanges
        /\ config.max_exchanges <= 20

\* A row whose stored min is above 20 and whose stored max is below 1 (so
\* min > max as well) has been resolved.
C1_Witness ==
    /\ pc = "cfg_out"
    /\ configRow.present
    /\ configRow.min_exchanges.kind = "num"
    /\ configRow.min_exchanges.halves > 40
    /\ configRow.max_exchanges.kind = "num"
    /\ configRow.max_exchanges.halves < 2

\* C3: with turns the turn count and (min, max) the resolved bounds, the
\* prompt's phase is PROBE iff turns < min, FLEXIBLE iff min <= turns < max,
\* HARD_STOP iff turns >= max; the server takes the forced path exactly when
\* the prompt names HARD_STOP; an empty message list has turn count 0 and
\* is PROBE.
C3_PhaseAgreesWithServer ==
    pc = "cfg_out" =>
        /\ (phase = "PROBE") <=> (userTurns < config.min_exchanges)
        /\ (phase = "FLEXIBLE") <=>
               (config.min_exchanges <= userTurns /\ userTurns < config.max_exchanges)
        /\ (phase = "HARD_STOP") <=> (userTurns >= config.max_exchanges)
        /\ hardStop <=> (phase = "HARD_STOP")
        /\ (messages = <<>> => userTurns = 0 /\ phase = "PROBE")

\* A row stored with min > max was resolved for a transcript whose turn
\* count lies between the stored max and the stored min.
C3_Witness ==
    /\ pc = "cfg_out"
    /\ configRow.present
    /\ configRow.min_exchanges = Num(10)
    /\ configRow.max_exchanges = Num(6)
    /\ userTurns = 4
    /\ phase = "PROBE"

\* ------------------------------------------------------------------------
\* Specification SpecTurns: countUserTurns over growing transcripts whose
\* contents spell the sentinel in several cases and paddings, or do not.
\* ------------------------------------------------------------------------
TurnContents ==
    { START,
      <<"S", "T", "A", "R", "T">>,
      <<" ", "S", "t", "a", "r", "t">>,
      <<"s", "T", "a", "R", "t", "\n">>,
      <<"\n", "\t", "s", "t", "a", "r", "t", " ", "\n">>,
      <<>>,
      <<" ">>,
      <<"h", "i">>,
      <<" ", "H", "i", " ">>,
      <<"s", "t", "a", "r">>,
      <<"s", "t", " ", "a", "r", "t">>,
      <<"s", "t", "a", "r", "t", "s">> }

InitTurns ==
    /\ pc = "turns"
    /\ messages = <<>>
    /\ userTurns = 0
    /\ IdleAuth /\ IdleConfig /\ IdleProvider /\ IdleText /\ IdleStore
    /\ endpoints = <<>> /\ IdleDispatch /\ IdleContext

\* The caller sends the transcript grown by one message; the handler
\* recomputes the turn count from the whole list.
AppendAndCount ==
    /\ pc = "turns"
    /\ Len(messages) < MaxMsgs
    /\ \E r \in {"user", "assistant"}, c \in TurnContents :
           messages' = Append(messages, Msg(r, c))
    /\ userTurns' = countUserTurns(messages')
    /\ UNCHANGED <<pc, nReq, apiKey, accountId, bodyInsightId, insightId,
                   configRow, config, phase, hardStop, primaryStatus,
                   primaryCalls, secondaryCalls, secondaryStatus, rawText,
                   finalText, insight, upstream, accumulated, response, store,
                   storeAtStart, dispatches>>
    /\ UNCHANGED dispVars
    /\ UNCHANGED contextVars

SpecTurns == InitTurns /\ [][AppendAndCount]_vars

toUpperAtom(a) ==
    CASE a = "s" -> "S"
      [] a = "t" -> "T"
      [] a = "a" -> "A"
      [] a = "r" -> "R"
      [] OTHER -> a

\* c is whitespace, then the five letters of the sentinel each in either
\* case, then whitespace.
SpellsSentinel(c) ==
    \E i \in 0..Len(c) :
        /\ i + 5 <= Len(c)
        /\ \A k \in 1..i : IsSpace(c[k])
        /\ \A k \in 1..5 : c[i + k] \in {START[k], toUpperAtom(START[k])}
        /\ \A k \in (i + 6)..Len(c) : IsSpace(c[k])

\* C2: the turn count is the number of user messages that do not spell the
\* sentinel (in any letter case, with any surrounding whitespace);
\* assistant messages and sentinel messages never count.
C2_TurnCountIgnoresSentinel ==
    pc = "turns" =>
        userTurns = Cardinality({i \in 1..Len(messages) :
                        /\ messages[i].role = "user"
                        /\ ~SpellsSentinel(messages[i].content)})

\* A transcript holding an upper-case padded sentinel, an assistant message
\* and one real user message has been counted.
C2_Witness ==
    /\ pc = "turns"
    /\ Len(messages) = 3
    /\ messages[1] = Msg("user", <<" ", "S", "t", "a", "r", "t">>)
    /\ messages[2].role = "assistant"
    /\ messages[3] = Msg("user", <<"h", "i">>)
    /\ userTurns = 1

\* ------------------------------------------------------------------------
\* Specification SpecForce: forceFinalTranscript applied to every provider
\* output of up to MaxRawLen atoms.
\* ------------------------------------------------------------------------
ForceAtoms == {"w", "?", " ", "[INTERVIEW_", "COMPLETE]", OPEN, CLOSE,
               "{ok}", "{tok}"}

RawTexts(n) == UNION {[1..k -> ForceAtoms] : k \in 0..n}

ForceMessages ==
    { Conversation(2),
      <<Msg("user", START)>>,
      <<Msg("user", <<" ", "S", "t", "a", "r", "t">>),
        Msg("assistant", <<"w", "?">>), Msg("user", <<"w", "?">>)>> }

InitForce ==
    /\ pc = "force_in"
    /\ rawText \in RawTexts(MaxRawLen)
    /\ messages \in ForceMessages
    /\ finalText = <<>> /\ insight = NoInsight
    /\ userTurns = 0
    /\ IdleAuth /\ IdleConfig /\ IdleProvider /\ IdleStore
    /\ endpoints = <<>> /\ IdleDispatch /\ IdleContext

ForceFinal ==
    /\ pc = "force_in"
    /\ pc' = "force_out"
    /\ finalText' = forceFinalTranscript(rawText, messages).text
    /\ insight' = forceFinalTranscript(rawText, messages).insight
    /\ UNCHANGED <<nReq, apiKey, accountId, messages, bodyInsightId, insightId,
                   configRow, config, userTurns, phase, hardStop,
                   primaryStatus, primaryCalls, secondaryCalls,
                   secondaryStatus, rawText, upstream, accumulated, response,
                   store, storeAtStart, dispatches>>
    /\ UNCHANGED dispVars
    /\ UNCHANGED contextVars

SpecForce == InitForce /\ [][ForceFinal]_vars

\* The text holds the completion token once, then one block whose content
\* is the serialised insight and which ends the text, and no question mark
\* before the token.
WellFormedFinal(text, ins) ==
    /\ Occurrences(text, TOKEN) = 1
    /\ Occurrences(text, <<OPEN>>) = 1
    /\ Occurrences(text, <<CLOSE>>) = 1
    /\ LET k == Min(Positions(text, TOKEN))
           o == BlockOpen(text)
           c == BlockClose(text)
       IN  /\ k < o /\ o < c /\ c = Len(text)
           /\ trim(SubSeq(text, o + 1, c - 1)) = Stringify(ins)
           /\ ~includes(SubSeq(text, 1, k - 1), <<"?">>)

\* C4: whatever the provider returned, the forced transcript contains the
\* completion token exactly once, followed by exactly one well-formed
\* insight block, and no question.
C4_ForcedTranscriptWellFormed ==
    pc = "force_out" => WellFormedFinal(finalText, insight)

\* ------------------------------------------------------------------------
\* Specification SpecDispatch: one run of the Notification Dispatcher over
\* every small notification_endpoints table.
\* ------------------------------------------------------------------------
MaxEndpoints == 3

\* Endpoints the tables are drawn from: account A's realtime endpoints of
\* both providers, with and without secret and auth header; a disabled
\* one, a digest one, one subscribed to another event; one of account B.
EndpointPool ==
    << Endpoint(1, "A", "slack", "s1", FALSE, "interview_completed", "realtime", TRUE),
       Endpoint(2, "A", "webhook", "", TRUE, "interview_completed", "realtime", TRUE),
       Endpoint(3, "A", "webhook", "s3", TRUE, "interview_completed", "realtime", TRUE),
       Endpoint(4, "A", "slack", "", FALSE, "interview_completed", "realtime", TRUE),
       Endpoint(5, "A", "webhook", "s5", FALSE, "interview_completed", "realtime", FALSE),
       Endpoint(6, "A", "webhook", "s6", FALSE, "interview_completed", "digest", TRUE),
       Endpoint(7, "A", "slack", "s7", FALSE, "insight_updated", "realtime", TRUE),
       Endpoint(8, "B", "slack", "s8", FALSE, "interview_completed", "realtime", TRUE) >>

\* Tables of at most n rows, in pool order.
EndpointTables(n) ==
    { [i \in DOMAIN pick |-> EndpointPool[pick[i]]] :
        pick \in { p \in UNION {[1..k -> DOMAIN EndpointPool] : k \in 0..n} :
                     \A a, b \in DOMAIN p : a < b => p[a] < p[b] } }

DispatchJobs ==
    { [account_id |-> "A", insight_id |-> 1],
      [account_id |-> "A", insight_id |-> NoId],
      [account_id |-> "B", insight_id |-> 1] }

InitDispatch ==
    /\ pc = "idle"
    /\ messages = <<>>
    /\ userTurns = 0
    /\ IdleAuth /\ IdleConfig /\ IdleProvider /\ IdleText /\ IdleStore
    /\ endpoints \in EndpointTables(MaxEndpoints)
    /\ djob \in DispatchJobs
    /\ dpc = "load"
    /\ dqueue = <<>> /\ deliveries = <<>> /\ netCalls = <<>> /\ dlog = <<>>
    /\ IdleContext

NextDispatch ==
    \/ LoadEndpoints
    \/ InsertDelivery
    \/ PostWebhook
    \/ WebhookOutcome
    \/ ReadResponseBody
    \/ DispatchRejected
    \/ DispatcherCrash

SpecDispatch == InitDispatch /\ [][NextDispatch]_vars

\* Ids of the endpoints of the dispatching account that are enabled, in
\* realtime mode and subscribed to interview_completed, in table order.
RealtimeTargetIds ==
    LET hit == SelectSeq(endpoints,
                   LAMBDA e : /\ e.account_id = djob.account_id
                              /\ e.enabled = TRUE
                              /\ e.delivery_mode = "realtime"
                              /\ e.event_type = "interview_completed")
    IN  [i \in DOMAIN hit |-> hit[i].id]

\* Endpoint ids of the delivery rows written, in insertion order.
RowEndpointIds == [i \in DOMAIN deliveries |-> deliveries[i].endpoint_id]

Range(f) == {f[i] : i \in DOMAIN f}

\* Console entries of one kind.
Logged(text) == Cardinality({i \in DOMAIN dlog : dlog[i] = text})

\* C17 as stated: for each dispatch the endpoints that get a delivery-log
\* row are exactly the account's enabled, realtime, interview-completed
\* endpoints, one row each and none for the others.
C17_RowsExactlyRealtimeTargets ==
    dpc = "finished" => RowEndpointIds = RealtimeTargetIds

\* C17 as amended: only those endpoints get a row, each at most one; a
\* dispatch that runs to its end gives a row to every one of them whose row
\* insert the store accepted, and to none when the endpoint query failed,
\* whatever the network outcome of each delivery.
C17_RowsForAcceptedRealtimeTargets ==
    /\ Range(RowEndpointIds) \subseteq Range(RealtimeTargetIds)
    /\ \A i, j \in DOMAIN deliveries :
           i < j => deliveries[i].endpoint_id < deliveries[j].endpoint_id
    /\ dpc = "finished" =>
         IF Logged("Failed to load notification endpoints") > 0
         THEN deliveries = <<>>
         ELSE Len(deliveries) + Logged("Failed to create delivery row")
                  = Len(RealtimeTargetIds)
    /\ (dpc = "finished" /\ dlog = <<>>) => RowEndpointIds = RealtimeTargetIds

C17_Witness ==
    /\ dpc = "finished" /\ dlog = <<>>
    /\ Len(endpoints) = 3 /\ Len(deliveries) = 2
    /\ RowEndpointIds = RealtimeTargetIds
    /\ deliveries[1].status = "failed" /\ deliveries[2].status = "success"

\* C18: the "skipped" row of an endpoint is written before the network call
\* to it is issued; no call is issued for an endpoint without a row; a
\* crash between the two leaves the "skipped" row in the store.
C18_SkippedRowBeforeCall ==
    /\ Len(netCalls) <= Len(deliveries)
    /\ \A c \in DOMAIN netCalls :
           /\ netCalls[c].delivery_id \in DOMAIN deliveries
           /\ deliveries[netCalls[c].delivery_id].endpoint_id = netCalls[c].endpoint_id
    /\ dpc = "post" =>
           /\ Len(netCalls) = Len(deliveries) - 1
           /\ deliveries[Len(deliveries)].status = "skipped"
           /\ deliveries[Len(deliveries)].endpoint_id = Head(dqueue).id
    /\ (dpc = "crashed" /\ Len(netCalls) < Len(deliveries)) =>
           deliveries[Len(deliveries)].status = "skipped"

C18_Witness ==
    /\ dpc = "crashed"
    /\ Len(deliveries) = 2 /\ Len(netCalls) = 1
    /\ deliveries[2].status = "skipped"

\* The endpoints row with the given id.
EndpointById(id) ==
    CHOOSE e \in Range(endpoints) : e.id = id

\* C19: a dispatch attempt carries the signature over its raw body iff the
\* endpoint has a non-empty signing secret, whatever the provider; the
\* provider kind never suppresses delivery: every target endpoint whose row
\* was written is sent to.
C19_SignedIffSecret ==
    /\ \A c \in DOMAIN netCalls :
         LET e == EndpointById(netCalls[c].endpoint_id)
         IN  /\ (netCalls[c].signature # NoSignature) <=> (e.signing_secret # "")
             /\ e.signing_secret # "" =>
                   netCalls[c].signature =
                       [key |-> e.signing_secret, over |-> netCalls[c].body]
    /\ dpc = "finished" =>
         \A r \in DOMAIN deliveries :
             \E c \in DOMAIN netCalls : netCalls[c].delivery_id = r

C19_Witness ==
    /\ dpc = "finished"
    /\ \E c \in DOMAIN netCalls :
         /\ netCalls[c].endpoint_id = 1
         /\ netCalls[c].body.shape = "slack"
         /\ netCalls[c].signature.key = "s1"
    /\ \E c \in DOMAIN netCalls : netCalls[c].signature = NoSignature

\* The attempt of the c-th POST is over: the dispatcher has gone on to the
\* next endpoint or reached the end of its loop.
AttemptOver(c) == c < Len(netCalls) \/ dpc \in {"insert", "post", "finished"}

\* C31: within one dispatch each endpoint is sent to at most once; after
\* its attempt its delivery row is "success" iff the endpoint answered with
\* a success status and "failed" otherwise; a delivery that fails never
\* keeps the dispatcher from the endpoints after it.
C31_OneAttemptRowByAnswer ==
    /\ \A c, k \in DOMAIN netCalls :
           netCalls[c].endpoint_id = netCalls[k].endpoint_id => c = k
    /\ \A c \in DOMAIN netCalls :
           AttemptOver(c) =>
               deliveries[netCalls[c].delivery_id].status =
                   IF netCalls[c].answer = "ok" THEN "success" ELSE "failed"
    /\ dpc = "hung" => Tail(dqueue) = <<>>

\* C32: every row written as "skipped" is brought to "success" or "failed"
\* because a stalled exchange is aborted by the timeout: while the row of
\* the endpoint in hand is "skipped" and the dispatch has not been ended
\* from outside, the dispatcher has a step left to take.
C32_StalledExchangeIsAborted ==
    (dpc \in {"post", "await", "body_2xx", "body_non2xx", "hung"}
        /\ deliveries[Len(deliveries)].status = "skipped")
      => ENABLED (PostWebhook \/ WebhookOutcome \/ ReadResponseBody)

\* ------------------------------------------------------------------------
\* Specification SpecExtract: the Insight Extractor applied to provider
\* texts with no block, a broken block, and a block of every JSON value of
\* JsonAtoms, over transcripts with and without substantive user messages.
\* ------------------------------------------------------------------------
ExtractTexts ==
    { <<"w", "?">>,
      <<"w">> \o TOKEN,
      <<"w">> \o TOKEN \o <<OPEN, "{ok}">>,
      <<"w">> \o TOKEN \o <<OPEN, "w", CLOSE>> }
    \cup { <<"w">> \o TOKEN \o <<OPEN, a, CLOSE>> : a \in JsonAtoms }

ExtractMessages ==
    { <<Msg("user", START)>>,
      <<Msg("user", <<" ", "p", " ">>)>>,
      <<Msg("user", <<"p", "r", "i", "c", "e">>), Msg("assistant", <<"w", "?">>), Msg("user", <<"b", "u", "g", "s">>)>>,
      <<Msg("user", <<" ">>), Msg("assistant", <<"w", "?">>), Msg("user", <<"b", "u", "g", "s">>)>>,
      <<Msg("user", START), Msg("assistant", <<"w", "?">>), Msg("user", <<"p", "r", "i", "c", "e">>),
        Msg("assistant", <<"w", "?">>), Msg("user", <<" ">>)>> }

InitExtract ==
    /\ pc = "extract_in"
    /\ rawText \in ExtractTexts
    /\ messages \in ExtractMessages
    /\ finalText = <<>> /\ insight = NoInsight
    /\ userTurns = 0
    /\ IdleAuth /\ IdleConfig /\ IdleProvider /\ IdleStore
    /\ endpoints = <<>> /\ IdleDispatch /\ IdleContext

\* normalizeInsightPayload(parseInsight(fullText), messages).
Extract ==
    /\ pc = "extract_in"
    /\ pc' = "extract_out"
    /\ insight' = normalizeInsightPayload(parseInsight(rawText), messages)
    /\ UNCHANGED <<nReq, apiKey, accountId, messages, bodyInsightId, insightId,
                   configRow, config, userTurns, phase, hardStop,
                   primaryStatus, primaryCalls, secondaryCalls,
                   secondaryStatus, rawText, finalText, upstream, accumulated,
                   response, store, storeAtStart, dispatches>>
    /\ UNCHANGED dispVars
    /\ UNCHANGED contextVars

SpecExtract == InitExtract /\ [][Extract]_vars

RequiredStrings == {"surface_reason", "sentiment", "key_quote", "category",
                    "retention_path"}
RequiredLists == {"deep_reasons", "feature_gaps"}
RequiredBooleans == {"salvageable", "retention_accepted"}

IsText(x) == x \in Seq(STRING)

\* Strings and booleans of the extracted record, as the claim and the code
\* agree on them: a string field is a text, the fallback's when the parsed
\* value has none (missing or null), else the value as a string; a boolean
\* field is a boolean, false when the parsed value has none.
StringsAndBooleansNormalized ==
    LET raw == parseInsight(rawText)
        fallback == buildFallbackInsight(messages)
    IN  /\ \A f \in RequiredStrings :
              /\ IsText(insight[f])
              /\ Nullish(Get(raw, f)) => insight[f] = fallback[f] /\ insight[f] # <<>>
              /\ ~Nullish(Get(raw, f)) => insight[f] = JsString(Get(raw, f))
        /\ \A f \in RequiredBooleans :
              /\ insight[f] \in BOOLEAN
              /\ Nullish(Get(raw, f)) => insight[f] = FALSE

\* C22 as stated: no required field of the extracted record is null; every
\* required string is a string, every boolean a boolean (false when
\* missing), and every list a list of strings, a missing list (deep_reasons
\* or feature_gaps) having become the empty list.
C22_MissingListBecomesEmpty ==
    pc = "extract_out" =>
        /\ StringsAndBooleansNormalized
        /\ \A f \in RequiredLists :
              /\ \A i \in DOMAIN insight[f] : IsText(insight[f][i])
              /\ Get(parseInsight(rawText), f).t # "list" => insight[f] = <<>>

\* C22 amended: as above, except that only a missing feature_gaps becomes
\* the empty list; a missing deep_reasons becomes the fallback's list, whose
\* one element is the fallback surface_reason.
C22_NormalizedShape ==
    pc = "extract_out" =>
        /\ StringsAndBooleansNormalized
        /\ \A f \in RequiredLists :
              \A i \in DOMAIN insight[f] : IsText(insight[f][i])
        /\ Get(parseInsight(rawText), "feature_gaps").t # "list"
              => insight.feature_gaps = <<>>
        /\ Get(parseInsight(rawText), "deep_reasons").t # "list"
              => insight.deep_reasons =
                     <<buildFallbackInsight(messages).surface_reason>>

\* An object whose fields are all null has been normalised.
C22_Witness ==
    /\ pc = "extract_out"
    /\ rawText = <<"w">> \o TOKEN \o <<OPEN, "{nulls}", CLOSE>>
    /\ messages[1] = Msg("user", <<"p", "r", "i", "c", "e">>)
    /\ insight.surface_reason = <<"p", "r", "i", "c", "e">>
    /\ insight.deep_reasons = <<<<"p", "r", "i", "c", "e">>>>
    /\ insight.feature_gaps = <<>>

\* The user messages that are neither the sentinel nor empty.
Substantive(msgs) ==
    {i \in 1..Len(msgs) :
        /\ msgs[i].role = "user"
        /\ trim(msgs[i].content) # <<>>
        /\ toLowerCase(trim(msgs[i].content)) # START}

\* No block, or a block whose content JSON.parse rejects.
BlockAbsentOrUnparseable(text) ==
    \/ BlockClose(text) = 0
    \/ LET content == trim(SubSeq(text, BlockOpen(text) + 1, BlockClose(text) - 1))
       IN  ~(Len(content) = 1 /\ content[1] \in JsonAtoms)

\* C23: when the block is absent or unparseable the insight is the fallback
\* record: surface_reason the first substantive user message, key_quote the
\* last one, category "other", retention_path "offboard_gracefully",
\* salvageable and retention_accepted false.
C23_FallbackFromSubstantiveMessages ==
    (pc = "extract_out" /\ BlockAbsentOrUnparseable(rawText)) =>
        /\ insight.category = <<"other">>
        /\ insight.retention_path = <<"offboard_gracefully">>
        /\ insight.salvageable = FALSE
        /\ insight.retention_accepted = FALSE
        /\ Substantive(messages) # {} =>
              /\ insight.surface_reason =
                     trim(messages[Min(Substantive(messages))].content)
              /\ insight.key_quote =
                     trim(messages[Max(Substantive(messages))].content)

\* ------------------------------------------------------------------------
\* Specification SpecRules: the rule load and the Rule Matcher over every
\* table of up to MaxRules rules of RulePool and every context of
\* RuleContexts.
\* ------------------------------------------------------------------------
MaxRules == 3

\* Rules as the editor saves them (a non-empty prompt addition), and two
\* with the table's default, empty, condition list.  Priorities repeat.
RulePool ==
    { Rule(1, 0, "AND", <<Condition("plan", "==", JStr(<<"S", "t", "a", "r">>)),
                          Condition("seats", ">", JNum(3))>>, <<"a">>),
      Rule(2, 1, "OR", <<Condition("plan", "contains", JStr(<<"T", "A", "R">>)),
                         Condition("seats", "<=", JNum(3))>>, <<"b">>),
      Rule(3, 1, "AND", <<>>, <<"c">>),
      Rule(4, 0, "OR", <<>>, <<"d">>),
      Rule(5, 2, "OR", <<Condition("plan", "!=", JStr(<<"H", "i">>)),
                         Condition("seats", "<", JStr(<<"3">>))>>, <<"e">>),
      Rule(6, 0, "AND", <<Condition("seats", ">=", JNum(5)),
                          Condition("plan", "!=", JStr(<<"H", "i">>))>>, <<"f">>) }

RuleTables(n) ==
    UNION { {t \in [1..k -> RulePool] : \A i, j \in 1..k : t[i] = t[j] => i = j}
            : k \in 0..n }

\* body.userContext: none; plan and seats; seats only; plan null and seats
\* as a string; an object with no attribute.
RuleContexts ==
    { JNull,
      JObject([plan |-> JStr(<<"S", "t", "a", "r">>), seats |-> JNum(5)]),
      JObject([plan |-> JStr(<<"H", "i">>), seats |-> JNum(2)]),
      JObject([seats |-> JNum(2)]),
      JObject([plan |-> JNull, seats |-> JStr(<<"5">>)]),
      JObject([x \in {} |-> Absent]) }

InitRules ==
    /\ pc = "rules_in"
    /\ rules \in RuleTables(MaxRules)
    /\ userContext \in RuleContexts
    /\ ruleInjection = JNull
    /\ conv = NoConversation
    /\ finalizes = <<>>
    /\ messages = <<>>
    /\ userTurns = 0
    /\ IdleAuth /\ IdleConfig /\ IdleProvider /\ IdleText /\ IdleStore
    /\ endpoints = <<>> /\ IdleDispatch

\* The rules query returns the account's rows by ascending priority and
\* matchRule picks the injection.
LoadRulesAndMatch ==
    /\ pc = "rules_in"
    /\ pc' = "rules_out"
    /\ \E rows \in OrderedByPriority(rules) :
          ruleInjection' = matchRule(rows, userContext)
    /\ UNCHANGED <<conv, userContext, rules, finalizes>>
    /\ UNCHANGED <<nReq, apiKey, accountId, messages, bodyInsightId, insightId,
                   configRow, config, userTurns, phase, hardStop,
                   primaryStatus, primaryCalls, secondaryCalls,
                   secondaryStatus, rawText, finalText, insight, upstream,
                   accumulated, response, store, storeAtStart, dispatches>>
    /\ UNCHANGED dispVars

SpecRules == InitRules /\ [][LoadRulesAndMatch]_vars

\* The rule whose prompt addition was injected, if any (additions differ
\* from rule to rule in RulePool).
Injected(rule) == ruleInjection = JStr(rule.prompt_addition)

\* A rule matches, as the rule's logic combines its conditions.
MatchesByLogic(rule, ctx) ==
    LET n == Len(rule.conditions)
        holds(j) == ConditionHolds(rule.conditions[j], ctx)
    IN  /\ n >= 1
        /\ IF rule.condition_logic = "AND"
           THEN \A j \in 1..n : holds(j)
           ELSE \E j \in 1..n : holds(j)

\* C24: an AND rule matches iff it has at least one condition and every
\* condition holds, an OR rule iff at least one condition holds, and a rule
\* with no condition never matches: the injected rule is one that matches
\* in this sense, and something is injected as soon as one does.
C24_MatchByLogic ==
    (pc = "rules_out" /\ userContext.t # "null") =>
        /\ \A i \in DOMAIN rules :
              Injected(rules[i]) => MatchesByLogic(rules[i], userContext)
        /\ (\E i \in DOMAIN rules : MatchesByLogic(rules[i], userContext))
              => ruleInjection # JNull
        /\ \A i \in DOMAIN rules :
              Len(rules[i].conditions) = 0 => ~Injected(rules[i])

\* Only rules without conditions and rules whose conditions fail stand
\* before the AND rule that was injected.
C24_Witness ==
    /\ pc = "rules_out"
    /\ Len(rules) = 3
    /\ rules[1].id = 4 /\ rules[2].id = 3 /\ rules[3].id = 1
    /\ ruleInjection = JStr(<<"a">>)

\* C25: a condition on an attribute the context does not have (absent or
\* null) is false for every operator, "!=" included: a rule all of whose
\* conditions are on such attributes is never injected, and with no context
\* at all nothing is injected.
C25_AbsentAttributeNeverSatisfies ==
    pc = "rules_out" =>
        /\ \A i \in DOMAIN rules :
              (\A j \in DOMAIN rules[i].conditions :
                   Nullish(Get(userContext, rules[i].conditions[j].variable)))
                 => ~Injected(rules[i])
        /\ \A i \in DOMAIN rules : \A j \in DOMAIN rules[i].conditions :
              Nullish(Get(userContext, rules[i].conditions[j].variable))
                 => ~ConditionHolds(rules[i].conditions[j], userContext)
        /\ userContext.t = "null" =>
              /\ ruleInjection = JNull
              /\ ruleInjectionBlock(ruleInjection) = <<>>

\* An OR rule with a "!=" condition met a context without attributes.
C25_Witness ==
    /\ pc = "rules_out"
    /\ userContext = JObject([x \in {} |-> Absent])
    /\ \E i \in DOMAIN rules : rules[i].id = 5
    /\ ruleInjection = JNull

MaxConvRequests == 3

\* What the customer types: a real answer, or the word "start".
UserInputs == {<<"h", "i">>, START}

\* constants.ts cleanMessage: the token removed, the text cut where the
\* block starts, trimmed.
cleanMessage(text) ==
    LET visible == stripToken(text)
        opens == {i \in 1..Len(visible) : visible[i] = OPEN}
    IN  trim(IF opens = {} THEN visible ELSE SubSeq(visible, 1, Min(opens) - 1))

InitConversation ==
    /\ pc = "idle"
    /\ messages = <<>>
    /\ userTurns = 0
    /\ IdleAuth /\ IdleConfig /\ IdleProvider /\ IdleText /\ IdleStore
    /\ endpoints = HandlerEndpoints /\ IdleDispatch
    /\ conv \in {[NoConversation EXCEPT !.row = r] : r \in HandlerRows}
    /\ userContext = JNull /\ rules = <<>> /\ ruleInjection = JNull
    /\ finalizes = <<>>

\* The client posts {messages, userContext}: on opening either the empty
\* list, to have the server greet, or the local greeting FIRST_MESSAGE and
\* the first input; afterwards the transcript so far and the new input.
ClientSend ==
    /\ pc = "idle"
    /\ ~conv.complete
    /\ conv.sent < MaxConvRequests
    /\ \E input \in UserInputs, greet \in BOOLEAN :
         LET transcript ==
                 IF conv.messages = <<>>
                 THEN IF greet /\ conv.sent = 0 THEN <<>>
                      ELSE <<Msg("assistant", <<"w", "?">>), Msg("user", input)>>
                 ELSE Append(conv.messages, Msg("user", input))
         IN  /\ conv' = [conv EXCEPT !.messages = transcript, !.sent = @ + 1]
             /\ messages' = transcript
    /\ apiKey' = "kA"
    /\ bodyInsightId' = NoId
    /\ nReq' = nReq + 1
    /\ storeAtStart' = store
    /\ pc' = "auth"
    /\ UNCHANGED <<accountId, insightId, configRow, config, userTurns, phase,
                   hardStop, primaryStatus, primaryCalls, secondaryCalls,
                   secondaryStatus, rawText, finalText, insight, upstream,
                   accumulated, response, store, dispatches>>
    /\ UNCHANGED dispVars
    /\ UNCHANGED <<userContext, rules, ruleInjection, finalizes>>

\* The configs row of the conversation's account is loaded.
LoadConversationConfig == LoadConfigAndBody /\ configRow' = conv.row

\* The client has the whole response: an error is shown and dropped, a
\* streamed answer is added to the transcript, and the interview is over
\* when the answer holds the completion token.  conv.answered counts the
\* answers to requests whose newest message is a real user turn.
ClientReads ==
    /\ EndRequest
    /\ conv' =
         IF response.kind = "stream"
         THEN [conv EXCEPT
                 !.messages = Append(@, Msg("assistant", cleanMessage(ResponseText))),
                 !.complete = includes(ResponseText, TOKEN),
                 !.answered = IF IsRealUserTurn(messages[Len(messages)])
                              THEN @ + 1 ELSE @]
         ELSE conv
    /\ UNCHANGED <<userContext, rules, ruleInjection, finalizes>>

NextConversation ==
    \/ ClientSend
    \/ ResolveAccount
    \/ LoadConversationConfig
    \/ MaybeCreatePartial
    \/ BuildPrompt
    \/ ForcedCall
    \/ GeminiForced
    \/ PrimaryCall
    \/ GeminiStreaming
    \/ ReadChunk
    \/ ReadFail
    \/ UpstreamClosed
    \/ SaveReturns
    \/ LoadEndpoints
    \/ InsertDelivery
    \/ PostWebhook
    \/ WebhookOutcome
    \/ ReadResponseBody
    \/ DispatchRejected
    \/ DispatcherCrash
    \/ ClientReads

SpecConversation == InitConversation /\ [][NextConversation]_vars

\* Partial rows in the insights table, all of this conversation.
PartialRows == {id \in DOMAIN store : store[id] = PartialRow("A")}

\* C21: over the requests of one conversation a partial insight row is
\* created at most once: the conversation never owns more than one.
C21_OnePartialRowPerConversation == Cardinality(PartialRows) <= 1

\* C30: the interview is bounded: at most max_exchanges real user turns are
\* answered, and the answer to a request whose transcript holds
\* max_exchanges real turns or more carries the completion token and no
\* question.
C30_InterviewBounded ==
    /\ conv.answered <= ResolveConfig(conv.row).max_exchanges
    /\ conv.answered <= 20
    /\ (pc = "done" /\ response.kind = "stream"
          /\ userTurns >= ResolveConfig(conv.row).max_exchanges)
         => /\ includes(ResponseText, TOKEN)
            /\ ~includes(cleanMessage(ResponseText), <<"?">>)

\* The second real turn of a conversation with max_exchanges 2 was answered
\* with the completion, after the first was answered with a question.
C30_Witness ==
    /\ conv.complete
    /\ conv.answered = 2
    /\ ResolveConfig(conv.row).max_exchanges = 2
    /\ pc = "idle"

\* The closed category set of the structured block.
Categories == {"pricing", "product_fit", "competition", "support",
               "reliability", "lifecycle", "other"}

\* C34: the row a finalize writes for the extracted insight has a
\* retention_path that is one of the five path kinds and a category of the
\* closed category set, whatever the structured block held.
C34_ClosedPathAndCategory ==
    pc = "extract_out" =>
        LET row == FinalRow("A", insight, messages).insight
        IN  /\ row.retention_path \in {<<k>> : k \in PathKinds}
            /\ row.category \in {<<c>> : c \in Categories}

\* ------------------------------------------------------------------------
\* Specification SpecConcurrent: two requests that carry the same known
\* insight id run side by side and both reach saveInsight.  Each finalize is
\* one update statement: it is sent, the store executes it, its answer
\* comes back; the steps of the two interleave freely.
\* ------------------------------------------------------------------------

\* The row both requests name.
SharedId == 1

\* Texts the two completed turns may hold, and their transcripts.
ConcurrentTexts == { FULLANSWER, <<"w">> \o TOKEN }
ConcurrentMessages == { Conversation(1), Conversation(2) }

\* The arguments of a saveInsight call about to be made.
FinalizeCalls ==
    { [pc |-> "called", account |-> a, messages |-> m,
       insight |-> normalizeInsightPayload(parseInsight(t), m),
       id |-> SharedId, ok |-> FALSE, returned |-> NoId] :
        a \in {"A", "B"}, t \in ConcurrentTexts, m \in ConcurrentMessages }

InitConcurrent ==
    /\ pc = "idle"
    /\ messages = <<>>
    /\ userTurns = 0
    /\ IdleAuth /\ IdleConfig /\ IdleProvider /\ IdleText
    /\ store \in { <<PartialRow("A")>>,
                   <<PartialRow("A"), PartialRow("B")>> }
    /\ storeAtStart = store /\ dispatches = <<>>
    /\ endpoints = <<>> /\ IdleDispatch
    /\ conv = NoConversation /\ userContext = JNull
    /\ rules = <<>> /\ ruleInjection = JNull
    /\ finalizes \in [1..2 -> FinalizeCalls]

\* Request p sends its update statement.
SendUpdate(p) ==
    /\ finalizes[p].pc = "called"
    /\ finalizes' = [finalizes EXCEPT ![p].pc = "sent"]
    /\ UNCHANGED store

\* The store executes the statement of request p, or refuses it.
ApplyUpdate(p) ==
    /\ finalizes[p].pc = "sent"
    /\ \E ok \in BOOLEAN :
         /\ store' = saveInsight(store, finalizes[p].account,
                                 finalizes[p].insight, finalizes[p].messages,
                                 finalizes[p].id, ok).table
         /\ finalizes' = [finalizes EXCEPT ![p].pc = "applied", ![p].ok = ok]

\* The answer reaches request p: saveInsight returns the id it was given.
UpdateReturns(p) ==
    /\ finalizes[p].pc = "applied"
    /\ finalizes' =
         [finalizes EXCEPT
            ![p].pc = "returned",
            ![p].returned = saveInsight(store, finalizes[p].account,
                                        finalizes[p].insight,
                                        finalizes[p].messages,
                                        finalizes[p].id, finalizes[p].ok).id]
    /\ UNCHANGED store

NextConcurrent ==
    /\ \E p \in 1..2 : SendUpdate(p) \/ ApplyUpdate(p) \/ UpdateReturns(p)
    /\ UNCHANGED <<pc, nReq, apiKey, accountId, messages, bodyInsightId,
                   insightId, configRow, config, userTurns, phase, hardStop,
                   primaryStatus, primaryCalls, secondaryCalls,
                   secondaryStatus, rawText, finalText, insight, upstream,
                   accumulated, response, storeAtStart, dispatches>>
    /\ UNCHANGED dispVars
    /\ UNCHANGED <<conv, userContext, rules, ruleInjection>>

SpecConcurrent == InitConcurrent /\ [][NextConcurrent]_vars

\* The row request p writes.
RowOf(p) ==
    FinalRow(finalizes[p].account, finalizes[p].insight, finalizes[p].messages)

\* C37: under every interleaving of two requests that carry the same known
\* id and both finalize, the store ends with exactly one row for the id (no
\* row is added, no other row touched) and its content is entirely that of
\* one of the two finalizes, never a mix of both.
C37_OneRowOfOneFinalize ==
    /\ Len(store) = Len(storeAtStart)
    /\ \A id \in DOMAIN store :
           id # SharedId => store[id] = storeAtStart[id]
    /\ store[SharedId] \in
           {storeAtStart[SharedId]}
              \cup {RowOf(p) : p \in {q \in 1..2 : finalizes[q].ok}}
    /\ (\A p \in 1..2 : finalizes[p].pc = "returned" /\ finalizes[p].ok) =>
           /\ \E p \in 1..2 : store[SharedId] = RowOf(p)
           /\ \A p \in 1..2 : finalizes[p].returned = SharedId

\* Both finalizes went through, with different insights and transcripts,
\* and the row is that of the first request, whose statement ran last.
C37_Witness ==
    /\ \A p \in 1..2 : finalizes[p].pc = "returned" /\ finalizes[p].ok
    /\ finalizes[1].insight # finalizes[2].insight
    /\ finalizes[1].messages # finalizes[2].messages
    /\ store[SharedId] = RowOf(1)
    /\ Len(store) = 2

====
